---- MODULE Spec2Model ----
(***************************************************************************)
(* Trakt-Sync: reconciliation engine (internal/sync), request executor     *)
(* (internal/trakt) and the sync command (cmd/trakt-sync).                  *)
(*                                                                         *)
(* Specifications:                                                         *)
(*   SpecDiff     calculateDiff on bounded inputs, then the list update    *)
(*                and a second diff                                        *)
(*   SpecBackoff  backoffDuration on every attempt index                   *)
(*   SpecRequest  doRequest calls on one client                            *)
(*   SpecSync     one run of the sync command, up to its exit code         *)
(*   SpecRefresh  shouldFullRefresh on bounded configurations              *)
(*   SpecUnique   uniqueIDs on bounded sequences                           *)
(*   SpecEnsure   EnsureListExists calls for one slug                      *)
(*   SpecPages    one GetListItems call on a paged list                    *)
(*   SpecPoll     one PollForToken call                                    *)
(*   SpecToken    RefreshAccessToken calls on one client                   *)
(*   SpecDaemon   the ticker loop of runDaemon; SpecDaemonLive adds weak   *)
(*                fairness of the ticker and of the pass                   *)
(***************************************************************************)
EXTENDS Integers, Sequences, FiniteSets, TLC

VARIABLES
    \* ---- calculateDiff (internal/sync/sync.go) ----
    diffPc,        \* "input" | "diffed" | "applied" | "rediffed" | "off"
    current,       \* []trakt.ListItem handed to calculateDiff
    target,        \* []trakt.MediaIDs handed to calculateDiff (parameter `new`)
    isMovie,       \* kind of the list the diff is for
    toAdd,         \* first result of calculateDiff
    toRemove,      \* second result of calculateDiff
    updated,       \* the list after toRemove was removed and toAdd added
    toAdd2,        \* results of the second calculateDiff
    toRemove2,
    \* ---- backoffDuration (internal/trakt/client.go) ----
    boPc,          \* "input" | "done" | "off"
    boAttempt,     \* the argument attempt
    boDelay,       \* the time.Duration returned, a 64-bit word
    \* ---- Client.doRequest (internal/trakt/client.go) ----
    reqPc,               \* "idle" | "loop" | "returned" | "off"
    calls,               \* doRequest calls started on this client
    now,                 \* the wall clock, in milliseconds
    rateLimitRemaining,  \* Client.rateLimitRemaining
    rateLimitReset,      \* Client.rateLimitReset (ZeroTime: time.Time{})
    attempt,             \* loop variable of doRequest
    retryAfter,          \* local retryAfter of doRequest, in milliseconds
    resp,                \* local resp: status of the response, 0 for nil
    respBody,            \* the body the latest response carried
    err,                 \* local err
    attemptsMade,        \* doRequestOnce calls of the current doRequest call
    attemptErr,          \* what the latest doRequestOnce returned as error
    backoffSlept,        \* time.Sleep(delay) before the latest attempt, 0 if none
    waitSeen,            \* what the latest waitForRateLimit read
    waitSlept,           \* how long the latest waitForRateLimit slept, 0 if not
    respHeader,          \* resp.Header of the latest attempt, NoHeaders if no response
    zeroReported,        \* whether a response so far reported 0 remaining calls
    \* ---- the sync command (cmd/trakt-sync/main.go, internal/sync/sync.go) ----
    syncPc,        \* position in runSync / SyncAll / SyncList, "off" when unused
    cfg,           \* *config.Config, the configuration in memory
    disk,          \* the configuration file as last written
    dryRun,        \* --dry-run
    listsFilter,   \* --lists, already split at the commas
    accessToken,   \* Client.accessToken
    refreshToken,  \* Client.refreshToken
    configDirty,   \* Syncer.configDirty
    result,        \* SyncResult of SyncAll / runSync
    syncErr,       \* the error runSync returns
    exitCode,      \* what syncExitCode returned, NoExit before
    listIdx,       \* index into GetListDefinitions() of the list at hand
    lists,         \* GetListDefinitions() as SyncAll read it
    syncCalls,     \* SyncList calls made, per list index
    listErr,       \* what SyncList returned, per list index
    fetched,       \* SyncList: what the two rankings returned, trending first
    fetchErrs,     \* SyncList: the errors of the two ranking queries, trending first
    newItems,      \* SyncList: newItems
    currentItems,  \* SyncList: currentItems
    fullRefresh,   \* SyncList: what shouldFullRefresh returned
    pending,       \* SyncList: toRemove and toAdd still to be submitted
    sent,          \* requests SyncList submitted for the list at hand, in order
    serverItems,   \* the list at hand as the remote service holds it
    \* ---- uniqueIDs (internal/sync/sync.go) ----
    uqPc,          \* "input" | "once" | "twice" | "off"
    uqItems,       \* []trakt.MediaIDs handed to uniqueIDs
    uqUnique,      \* uniqueIDs(items)
    uqAgain,       \* uniqueIDs(uniqueIDs(items))
    \* ---- Client.EnsureListExists (internal/trakt/lists.go) ----
    ensPc,         \* "idle" | "get" | "create" | "off"
    ensCalls,      \* EnsureListExists calls started
    ensPrivacy,    \* the argument privacy of the call at hand
    ensPresent,    \* whether the service held the list when the call started
    ensAttempt,    \* loop variable of the doRequest call at hand
    ensGet,        \* resp and err that doRequest returned to GetList
    ensPosts,      \* the create requests sent by the call at hand, in order
    ensReturn,     \* what the latest EnsureListExists call returned
    remoteLists,   \* the lists of that name on the remote service, by privacy
    \* ---- GetListItems (internal/trakt/lists.go) ----
    pgPc,          \* "call" | "loop" | "done" | "off"
    listPages,     \* the pages of the list the service holds
    page,          \* GetListItems: page
    allItems,      \* GetListItems: allItems
    pgReturn,      \* what GetListItems returned: [items, err]
    \* ---- PollForToken (internal/trakt/auth.go) ----
    pollPc,        \* "call" | "select" | "request" | "done" | "off"
    interval,      \* PollForToken: interval, in seconds
    expiresIn,     \* PollForToken: expiresIn, in seconds
    initial,       \* the interval the ticker was created with
    elapsed,       \* seconds since PollForToken was called
    tickAt,        \* when the ticker's next tick is or was due
    period,        \* the ticker's period
    slowDowns,     \* slow_down answers requestToken has returned
    tokenRequests, \* requestToken calls made
    lastAnswer,    \* the error of the last requestToken call
    pollReturn,    \* "none" | "Authorized" | "Denied" | "Expired" | "TimedOut" | "Failed"
    returnedAt,    \* elapsed when PollForToken returned
    pollTokens,    \* the client's [accessToken, refreshToken]
    \* ---- RefreshAccessToken (internal/trakt/auth.go) ----
    tkPc,          \* "idle" | "off"
    tkClient,      \* the client's [accessToken, refreshToken]
    onTokenRefresh,\* whether a callback is registered
    tkCalls,       \* RefreshAccessToken calls made
    tkBefore,      \* the client's tokens when the last call began
    tkRequests,    \* requests the last call issued
    tkCallbacks,   \* the callback invocations of the last call, in order
    tkResp,        \* the TokenResponse of the last call, when it got one
    tkReturn,      \* the error the last call returned
    \* ---- the requests of one run of the sync command ----
    bearers,       \* [op, auth]: the Authorization header each request carried
    \* ---- runDaemon (cmd/trakt-sync/main.go) ----
    dmPc,          \* "start" | "pass" | "waiting" | "exited" | "off"
    dmAuth,        \* cfg.IsAuthenticated()
    dmDryRun,      \* the --dry-run flag
    passes,        \* runSync calls runDaemon has made
    running,       \* runSync calls that have not returned
    tickPending,   \* whether ticker.C holds a tick
    passErrs       \* the errors the passes returned, in order

diffVars == <<diffPc, current, target, isMovie, toAdd, toRemove, updated, toAdd2, toRemove2>>

boVars == <<boPc, boAttempt, boDelay>>

clientVars == <<reqPc, calls, rateLimitRemaining, rateLimitReset, attempt, retryAfter,
                resp, respBody, err, attemptsMade, attemptErr, backoffSlept, waitSeen, waitSlept,
                respHeader, zeroReported>>

reqVars == <<clientVars, now>>

syncVars == <<syncPc, cfg, disk, dryRun, listsFilter, accessToken, refreshToken, configDirty,
              result, syncErr, exitCode, listIdx, lists, syncCalls, listErr, fetched,
              fetchErrs, newItems, currentItems, fullRefresh, pending, sent, serverItems>>

uqVars == <<uqPc, uqItems, uqUnique, uqAgain>>

ensVars == <<ensPc, ensCalls, ensPrivacy, ensPresent, ensAttempt, ensGet, ensPosts, ensReturn,
             remoteLists>>

pgVars == <<pgPc, listPages, page, allItems, pgReturn>>

pollVars == <<pollPc, interval, expiresIn, initial, elapsed, tickAt, period, slowDowns,
              tokenRequests, lastAnswer, pollReturn, returnedAt, pollTokens>>

tkVars == <<tkPc, tkClient, onTokenRefresh, tkCalls, tkBefore, tkRequests, tkCallbacks, tkResp,
            tkReturn>>

authVars == <<bearers>>

dmVars == <<dmPc, dmAuth, dmDryRun, passes, running, tickPending, passErrs>>

vars == <<diffVars, boVars, reqVars, syncVars, uqVars, ensVars, pgVars, pollVars, tkVars, authVars, dmVars>>

\* What the actions of one component leave alone.
notDiffVars == <<boVars, reqVars, syncVars, uqVars, ensVars, pgVars, pollVars, tkVars, authVars, dmVars>>
notBoVars == <<diffVars, reqVars, syncVars, uqVars, ensVars, pgVars, pollVars, tkVars, authVars, dmVars>>
notReqVars == <<diffVars, boVars, syncVars, uqVars, ensVars, pgVars, pollVars, tkVars, authVars, dmVars>>
notSyncVars == <<diffVars, boVars, clientVars, uqVars, ensVars, pgVars, pollVars, tkVars, dmVars>>
notUqVars == <<diffVars, boVars, reqVars, syncVars, ensVars, pgVars, pollVars, tkVars, authVars, dmVars>>
notEnsVars == <<diffVars, boVars, reqVars, syncVars, uqVars, pgVars, pollVars, tkVars, authVars, dmVars>>
notPgVars == <<diffVars, boVars, reqVars, syncVars, uqVars, ensVars, pollVars, tkVars, authVars, dmVars>>
notPollVars == <<diffVars, boVars, reqVars, syncVars, uqVars, ensVars, pgVars, tkVars, authVars, dmVars>>
notTkVars == <<diffVars, boVars, reqVars, syncVars, uqVars, ensVars, pgVars, pollVars, authVars, dmVars>>
notDmVars == <<diffVars, boVars, reqVars, syncVars, uqVars, ensVars, pgVars, pollVars, tkVars, authVars>>

(***************************************************************************)
(* Bounds                                                                  *)
(***************************************************************************)
MaxCur == 2        \* longest current list drawn for calculateDiff
MaxTgt == 3        \* longest target sequence drawn for calculateDiff
MaxAttempt == 64   \* largest attempt index handed to backoffDuration
MaxCalls == 1      \* doRequest calls made on one client
MaxList == 1       \* longest list the remote service holds when a sync reads it
MaxFetch == 2      \* longest ranking one fetch returns
MaxUnique == 3     \* longest sequence handed to uniqueIDs
MaxEnsure == 2     \* EnsureListExists calls made for one slug
MaxPages == 3      \* most pages a list on the remote service has
MaxPolls == 4      \* requestToken calls one PollForToken makes
MaxRefresh == 2    \* RefreshAccessToken calls made on one client
MaxPasses == 3     \* sync passes one daemon makes

TraktIDs == {1, 2, 3}       \* service IDs the remote service hands out
Slugs == {"a", "b"}

(***************************************************************************)
(* Data model (types file of internal/trakt)                               *)
(***************************************************************************)
\* MediaIDs: Trakt is the diffing key, Slug is informational.
MediaIDs == [Trakt : TraktIDs, Slug : Slugs]

\* The zero value of the Go struct MediaIDs.
ZeroMediaIDs == [Trakt |-> 0, Slug |-> ""]

\* The identities the remote service returns: one slug per service ID.
CatalogIDs == {[Trakt |-> t, Slug |-> "a"] : t \in TraktIDs}

\* ListItem: Movie and Show are pointers; <<>> is nil, <<ids>> is a pointer to
\* a Movie/Show whose IDs field is ids.
MovieItem(ids) == [Movie |-> <<ids>>, Show |-> <<>>]
ShowItem(ids) == [Movie |-> <<>>, Show |-> <<ids>>]
OtherItem == [Movie |-> <<>>, Show |-> <<>>]

\* Items a list of the remote service can hold: movies, shows, and items of
\* another type (person, ...) that populate neither pointer.
ListItems ==
    {MovieItem(ids) : ids \in CatalogIDs} \cup {ShowItem(ids) : ids \in CatalogIDs} \cup {OtherItem}

SeqsUpTo(S, n) == UNION {[1..k -> S] : k \in 0..n}

Range(s) == {s[i] : i \in DOMAIN s}

\* extractIDs of the tests: the service IDs of a sequence of MediaIDs.
extractIDs(items) == [i \in DOMAIN items |-> items[i].Trakt]

(***************************************************************************)
(* calculateDiff                                                           *)
(***************************************************************************)
\* A membership set that forgets the show branch of lines 244-246.
currentMapMoviesOnly(cur) ==
    {cur[i].Movie[1].Trakt : i \in {j \in DOMAIN cur : cur[j].Movie # <<>>}}

\* lines 240-247: the membership set of the current list.
currentMap(cur) ==
    {cur[i].Movie[1].Trakt : i \in {j \in DOMAIN cur : cur[j].Movie # <<>>}}
    \cup
    {cur[i].Show[1].Trakt : i \in {j \in DOMAIN cur : cur[j].Movie = <<>> /\ cur[j].Show # <<>>}}

\* lines 249-252: the keys of newMap.
newMapKeys(new) == {new[i].Trakt : i \in DOMAIN new}

\* lines 261-270: the identity the removal loop derives for one item.
removalIDs(item) ==
    IF item.Movie # <<>> THEN item.Movie[1]
    ELSE IF item.Show # <<>> THEN item.Show[1]
    ELSE ZeroMediaIDs

RECURSIVE diffToAdd(_, _)
diffToAdd(new, cmap) ==
    IF new = <<>> THEN <<>>
    ELSE (IF Head(new).Trakt \notin cmap THEN <<Head(new)>> ELSE <<>>) \o diffToAdd(Tail(new), cmap)

RECURSIVE diffToRemove(_, _)
diffToRemove(cur, keys) ==
    IF cur = <<>> THEN <<>>
    ELSE (IF removalIDs(Head(cur)).Trakt \notin keys THEN <<removalIDs(Head(cur))>> ELSE <<>>)
         \o diffToRemove(Tail(cur), keys)

calculateDiff(cur, new) ==
    [toAdd |-> diffToAdd(new, currentMap(cur)),
     toRemove |-> diffToRemove(cur, newMapKeys(new))]

(***************************************************************************)
(* The list update the diff is computed for: the remote service removes    *)
(* the items a remove request identifies by service ID, then appends one   *)
(* item per identity of the add request.  An item that populates neither   *)
(* movie nor show has no service ID a request could name.                  *)
(***************************************************************************)
hasIdentity(item) == item.Movie # <<>> \/ item.Show # <<>>

itemID(item) == IF item.Movie # <<>> THEN item.Movie[1].Trakt ELSE item.Show[1].Trakt

RECURSIVE withoutIDs(_, _)
withoutIDs(cur, ids) ==
    IF cur = <<>> THEN <<>>
    ELSE (IF hasIdentity(Head(cur)) /\ itemID(Head(cur)) \in ids THEN <<>> ELSE <<Head(cur)>>)
         \o withoutIDs(Tail(cur), ids)

asItems(ids, movie) ==
    [i \in DOMAIN ids |-> IF movie THEN MovieItem(ids[i]) ELSE ShowItem(ids[i])]

applyDiff(cur, add, rem, movie) ==
    withoutIDs(cur, Range(extractIDs(rem))) \o asItems(add, movie)

(***************************************************************************)
(* time.Duration is an int64 count of nanoseconds.  A word is its two's    *)
(* complement representation, little-endian in base 256: w[0] is the       *)
(* lowest byte.  Words of 8 bytes are Go's int64; words of 16 bytes are     *)
(* wide enough to hold baseBackoff * 2^63 exactly.                         *)
(***************************************************************************)
Bytes64 == 8
BytesWide == 2 * Bytes64

\* The word of n bytes holding v, for 0 <= v < 2^31.
WordOf(v, n) == [i \in 0..(n - 1) |-> IF i < 4 THEN (v \div (256 ^ i)) % 256 ELSE 0]

ZeroWord(n) == [i \in 0..(n - 1) |-> 0]

\* 1 << k in a word of n bytes; Go shifts every bit out when k >= 8n.
ShiftOne(k, n) ==
    [i \in 0..(n - 1) |-> IF k < 8 * n /\ i = k \div 8 THEN 2 ^ (k % 8) ELSE 0]

RECURSIVE columnSum(_, _, _, _)
columnSum(a, b, k, i) ==
    IF i > k THEN 0 ELSE a[i] * b[k - i] + columnSum(a, b, k, i + 1)

\* a * b modulo 256^n: the wrapping product of Go's integer multiplication.
MulWord(a, b, n) ==
    LET carry[k \in 0..(n - 1)] ==
            IF k = 0 THEN 0 ELSE (columnSum(a, b, k - 1, 0) + carry[k - 1]) \div 256
    IN [k \in 0..(n - 1) |-> (columnSum(a, b, k, 0) + carry[k]) % 256]

\* The sign bit of a word of n bytes.
IsNegative(w, n) == w[n - 1] >= 128

\* a > b on unsigned words of n bytes.
GreaterUnsigned(a, b, n) ==
    \E i \in 0..(n - 1) : a[i] > b[i] /\ \A j \in (i + 1)..(n - 1) : a[j] = b[j]

\* a > b on two's complement words of n bytes: Go's > on int64.
GreaterSigned(a, b, n) ==
    IF IsNegative(a, n) # IsNegative(b, n) THEN IsNegative(b, n)
    ELSE GreaterUnsigned(a, b, n)

\* A non-negative word of n bytes, extended to m >= n bytes.
Widen(w, n, m) == [i \in 0..(m - 1) |-> IF i < n THEN w[i] ELSE 0]

\* time.Millisecond and time.Second, in nanoseconds.
Millisecond(n) == WordOf(1000000, n)
Second(n) == WordOf(1000000000, n)

(***************************************************************************)
(* backoffDuration                                                         *)
(***************************************************************************)
\* const baseBackoff = 500 * time.Millisecond; maxBackoff = 5 * time.Second
baseBackoff == MulWord(WordOf(500, Bytes64), Millisecond(Bytes64), Bytes64)
maxBackoff == MulWord(WordOf(5, Bytes64), Second(Bytes64), Bytes64)

backoffDuration(att) ==
    IF att <= 0 THEN ZeroWord(Bytes64)
    ELSE LET delay == MulWord(baseBackoff, ShiftOne(att - 1, Bytes64), Bytes64)
         IN IF GreaterSigned(delay, maxBackoff, Bytes64) THEN maxBackoff ELSE delay

(***************************************************************************)
(* The request executor: Client.doRequest and what it calls.               *)
(* Times are milliseconds since the epoch; durations are milliseconds.     *)
(***************************************************************************)
maxRetries == 3

\* time.Time{}: the zero time, which IsZero reports.
ZeroTime == 0

\* A non-negative time.Duration word, in whole milliseconds: long division
\* of the nanoseconds by 10^6, from the highest byte down.
RECURSIVE divideWord(_, _, _, _)
divideWord(w, i, q, r) ==
    IF i < 0 THEN q
    ELSE divideWord(w, i - 1, q * 256 + (r * 256 + w[i]) \div 1000000, (r * 256 + w[i]) % 1000000)

DurationMs(w) == divideWord(w, Bytes64 - 1, 0, 0)

\* backoffDuration(attempt) for the attempts doRequest makes, in milliseconds.
backoffMs == [a \in 0..maxRetries |-> DurationMs(backoffDuration(a))]

\* A header of a response: absent, a decimal integer, an HTTP date, or text
\* that is neither.
Absent == [kind |-> "absent", val |-> 0]
IntH(v) == [kind |-> "int", val |-> v]
DateH(t) == [kind |-> "date", val |-> t]
TextH == [kind |-> "text", val |-> 0]

\* The errors doRequestOnce returns.  An APIError carries Status, Code,
\* Description and RetryAfter; isNet says whether errors.As finds a net.Error.
NoErr == [kind |-> "nil", Status |-> 0, Code |-> "", Description |-> "", RetryAfter |-> 0, isNet |-> FALSE]
RequestFailed == [NoErr EXCEPT !.kind = "request failed", !.isNet = TRUE]
ReadFailed(net) == [NoErr EXCEPT !.kind = "failed to read response body", !.isNet = net]
UnmarshalFailed == [NoErr EXCEPT !.kind = "failed to unmarshal response"]
APIError(status, code, description, after) ==
    [kind |-> "api", Status |-> status, Code |-> code, Description |-> description,
     RetryAfter |-> after, isNet |-> FALSE]

\* parseRateLimitReset(value, now): <<reset, ok>>.
parseRateLimitReset(value, t) ==
    IF value.kind = "absent" THEN <<ZeroTime, FALSE>>
    ELSE IF value.kind # "int" THEN <<ZeroTime, FALSE>>
    ELSE IF value.val > t \div 1000 + 60 THEN <<value.val * 1000, TRUE>>
    ELSE <<t + value.val * 1000, TRUE>>

\* retryAfterDuration(headers), evaluated at time t.
retryAfterDuration(headers, t) ==
    IF headers.retryAfter.kind = "int" THEN headers.retryAfter.val * 1000
    ELSE IF headers.retryAfter.kind = "date" THEN headers.retryAfter.val - t
    ELSE IF parseRateLimitReset(headers.reset, t)[2] THEN parseRateLimitReset(headers.reset, t)[1] - t
    ELSE 0

\* An update that stores what the conversions returned, parsed or not: 0
\* calls for an unparsable remaining header, time.Time{} for a reset header
\* that is no number.
updateRateLimitUnchecked(headers, remaining, reset, t) ==
    <<IF headers.remaining.kind = "int" THEN headers.remaining.val
      ELSE IF headers.remaining.kind = "absent" THEN remaining ELSE 0,
      parseRateLimitReset(headers.reset, t)[1]>>

\* updateRateLimit(headers): the new <<rateLimitRemaining, rateLimitReset>>.
updateRateLimit(headers, remaining, reset, t) ==
    <<IF headers.remaining.kind = "int" THEN headers.remaining.val ELSE remaining,
      IF parseRateLimitReset(headers.reset, t)[2] THEN parseRateLimitReset(headers.reset, t)[1]
      ELSE reset>>

\* A wait that forgets to look at the clock: it sleeps time.Until(reset)
\* whenever no call remains and a reset time is known.
waitForRateLimitNoClock(remaining, reset, t) ==
    IF remaining = 0 /\ reset # ZeroTime THEN reset - t ELSE 0

\* waitForRateLimit: the duration handed to time.Sleep, 0 when it does not sleep.
waitForRateLimit(remaining, reset, t) ==
    IF remaining = 0 /\ reset # ZeroTime
    THEN (IF t < reset THEN reset - t ELSE 0)
    ELSE 0

\* isRetryableError(err)
isRetryableError(e) == e.isNet

\* doRequestOnce: the error it returns for a response, received at time t.
\* A body is [kind, Error, ErrorDescription, text]: kind "json" is a body
\* that decodes, "raw" one that does not, "readNet"/"readOther" a body whose
\* read fails with or without a net.Error.
responseError(r, t) ==
    IF r.body.kind = "readNet" THEN ReadFailed(TRUE)
    ELSE IF r.body.kind = "readOther" THEN ReadFailed(FALSE)
    ELSE IF r.status >= 400
         THEN IF r.body.kind = "json" /\ r.body.Error # ""
              THEN APIError(r.status, r.body.Error, r.body.ErrorDescription,
                            retryAfterDuration(r.headers, t))
              ELSE APIError(r.status, "", r.body.text, retryAfterDuration(r.headers, t))
    ELSE IF r.body.kind = "raw" THEN UnmarshalFailed
    ELSE NoErr

\* A loop that goes on after every APIError.
shouldRetryEveryStatus(e) ==
    IF e.kind = "api" THEN e.Status >= 400
    ELSE isRetryableError(e)

\* lines 92-107: whether the loop goes on after this error.
shouldRetry(e) ==
    IF e.kind = "api" THEN e.Status = 429 \/ e.Status >= 500
    ELSE isRetryableError(e)

\* lines 94-96: the retryAfter the loop carries into the next iteration.
nextRetryAfter(e) ==
    IF e.kind = "api" /\ e.RetryAfter > 0 THEN e.RetryAfter ELSE 0

\* A loop that sleeps the computed backoff and never looks at the hint.
backoffOnly(att, after) ==
    IF att > 0 THEN backoffMs[att] ELSE 0

\* lines 73-82: the delay slept before an attempt.
retryDelay(att, after) ==
    IF att > 0
    THEN (IF after > backoffMs[att] THEN after ELSE backoffMs[att])
    ELSE 0

\* An executor that keeps the first error of a call.
keepFirstError(att, old, new) == IF att = 0 \/ new = NoErr THEN new ELSE old

\* line 87: resp, err = c.doRequestOnce(...)
assignErr(att, old, new) == new

(***************************************************************************)
(* What the remote service may answer to one attempt.                      *)
(***************************************************************************)
Statuses == {200, 404, 429, 500}

RemainingHeaders == {Absent, TextH, IntH(0), IntH(1)}

\* X-Ratelimit-Reset as the service writes it: a number of seconds from now,
\* or the epoch second of the reset, which is never before the start of
\* the run (StartTime is second 100).
ResetDelays == {2}
ResetEpochs == {130}
ResetHeaders == {Absent, TextH} \cup {IntH(v) : v \in ResetDelays \cup ResetEpochs}
RetryAfterHeaders == {Absent, IntH(1)}

Headers == [remaining : RemainingHeaders, reset : ResetHeaders, retryAfter : RetryAfterHeaders]

\* A response without any of the three headers, and what stands for the
\* headers when there is no response.
NoHeaders == [remaining |-> Absent, reset |-> Absent, retryAfter |-> Absent]

Body(kind, error, description, text) ==
    [kind |-> kind, Error |-> error, ErrorDescription |-> description, text |-> text]

\* No response, hence no body.
NoBody == Body("none", "", "", "")

\* Bodies whose read fails, with and without a net.Error.
UnreadBodies == {Body("readNet", "", "", ""), Body("readOther", "", "", "")}

\* Bodies of a response below 400: one that decodes into result, one that does not.
ResultBodies == {Body("json", "", "", "{}"), Body("raw", "", "", "<html>")}

\* Bodies of a response from 400 on: an ErrorResponse with and without an
\* error code, and a body that is no JSON.
ErrorBodies ==
    {Body("json", "E1", "D1", "{E1,D1}"), Body("json", "", "D2", "{,D2}"), Body("raw", "", "", "oops")}

Responses ==
    {r \in [status : Statuses, headers : Headers, body : UnreadBodies \cup ResultBodies \cup ErrorBodies] :
        \/ r.status \in {200, 404} /\ r.body \in UnreadBodies
        \/ r.status < 400 /\ r.body \in ResultBodies
        \/ r.status >= 400 /\ r.body \in ErrorBodies}

StartTime == 100 * 1000

(***************************************************************************)
(* Configuration (internal/config/config.go).  Times are milliseconds on   *)
(* the clock `now`; errors are their messages, nil is no error.            *)
(***************************************************************************)
Hour == 3600 * 1000
Day == 24 * Hour

\* The clock when the sync command starts.
SyncStartTime == 10 * Day

nil == "nil"

\* strings.TrimSpace, on the strings drawn here.
TrimSpace(s) ==
    CASE s = " " -> ""
      [] s = " trakt-sync-serien" -> "trakt-sync-serien"
      [] OTHER -> s

Validate(c) ==
    IF c.Trakt.ClientID = "" THEN "trakt.client_id is required"
    ELSE IF c.Trakt.ClientSecret = "" THEN "trakt.client_secret is required"
    ELSE IF c.Trakt.Username = "" THEN "trakt.username is required"
    ELSE IF c.Sync.Limit <= 0 THEN "sync.limit must be greater than 0"
    ELSE IF TrimSpace(c.Sync.ListPrivacy) = "" THEN "sync.list_privacy is required"
    ELSE IF c.Sync.FullRefreshDays <= 0 THEN "sync.full_refresh_days must be greater than 0"
    ELSE nil

IsAuthenticated(c) == c.Trakt.AccessToken # "" /\ c.Trakt.RefreshToken # ""

NeedsRefresh(c, t) ==
    IF c.Trakt.AccessToken = "" THEN FALSE ELSE t + Hour > c.Trakt.TokenExpires

\* time.Format(time.RFC3339) and the parse on the next load: whole seconds,
\* the zero time is written as "".
formatTimeOrEmpty(t) == IF t = ZeroTime THEN ZeroTime ELSE (t \div 1000) * 1000

\* Save: what the configuration file holds after a successful write.
Save(c) ==
    [Trakt |-> [c.Trakt EXCEPT !.TokenExpires = formatTimeOrEmpty(@)],
     Sync |-> [c.Sync EXCEPT
                 !.ListPrivacy = IF TrimSpace(@) = "" THEN "private" ELSE TrimSpace(@),
                 !.LastFullRefresh = [Movies |-> formatTimeOrEmpty(@.Movies),
                                      Shows |-> formatTimeOrEmpty(@.Shows)]]]

(***************************************************************************)
(* Reconciliation engine (internal/sync/sync.go)                           *)
(***************************************************************************)
ErrAllFailed == "all lists failed to sync"

ZeroResult == [Successful |-> 0, Failed |-> 0, Total |-> 0]

GetListDefinitions(c) ==
    <<[Slug |-> "trakt-sync-filme", Enabled |-> c.Sync.Lists.Movies, IsMovie |-> TRUE],
      [Slug |-> "trakt-sync-serien", Enabled |-> c.Sync.Lists.Shows, IsMovie |-> FALSE]>>

lastFullRefresh(c, movie) ==
    IF movie THEN c.Sync.LastFullRefresh.Movies ELSE c.Sync.LastFullRefresh.Shows

\* Values of sync.full_refresh_days that Validate accepts: a week, and the
\* two around the largest number of days whose nanoseconds fit an int64.
RefreshDays == {7, 106751, 106752}

\* time.Duration(days)*24*time.Hour: an int64 product, which wraps.
refreshInterval ==
    [d \in RefreshDays |->
        MulWord(MulWord(MulWord(WordOf(d, Bytes64), WordOf(24, Bytes64), Bytes64),
                        WordOf(3600, Bytes64), Bytes64),
                Second(Bytes64), Bytes64)]

\* -1 as an int64.
MinusOne == [i \in 0..(Bytes64 - 1) |-> 255]

\* time.Since(last) for a distance of ms milliseconds, in nanoseconds.
sinceDuration(ms) ==
    IF ms >= 0 THEN MulWord(WordOf(ms, Bytes64), Millisecond(Bytes64), Bytes64)
    ELSE MulWord(MinusOne, MulWord(WordOf(0 - ms, Bytes64), Millisecond(Bytes64), Bytes64), Bytes64)

shouldFullRefresh(c, movie, t) ==
    LET days == IF c.Sync.FullRefreshDays <= 0 THEN 7 ELSE c.Sync.FullRefreshDays
        last == lastFullRefresh(c, movie)
    IN IF last = ZeroTime THEN TRUE
       ELSE ~GreaterSigned(refreshInterval[days], sinceDuration(t - last), Bytes64)

\* The stamp written to the timestamp of the other kind.
markOtherKind(c, movie, t) ==
    IF movie THEN [c EXCEPT !.Sync.LastFullRefresh.Shows = t]
    ELSE [c EXCEPT !.Sync.LastFullRefresh.Movies = t]

markFullRefresh(c, movie, t) ==
    IF movie THEN [c EXCEPT !.Sync.LastFullRefresh.Movies = t]
    ELSE [c EXCEPT !.Sync.LastFullRefresh.Shows = t]

\* A SyncList that stamps the refresh time at the end of every run.
stampEveryRun(c, full, movie, t) == markFullRefresh(c, movie, t)

\* SyncList, lines 151-176 and 179-204: markFullRefresh is called at the
\* end of the full-refresh branch only.
refreshStamp(c, full, movie, t) == IF full THEN markFullRefresh(c, movie, t) ELSE c

\* A listing that forgets the show branch of lines 319-321.
RECURSIVE listMovieIDs(_)
listMovieIDs(items) ==
    IF items = <<>> THEN <<>>
    ELSE (IF Head(items).Movie # <<>> THEN <<Head(items).Movie[1]>> ELSE <<>>)
         \o listMovieIDs(Tail(items))

\* listItemIDs, lines 314-324: the identities of the items of a list.
RECURSIVE listItemIDs(_)
listItemIDs(items) ==
    IF items = <<>> THEN <<>>
    ELSE (IF Head(items).Movie # <<>> THEN <<Head(items).Movie[1]>>
          ELSE IF Head(items).Show # <<>> THEN <<Head(items).Show[1]>>
          ELSE <<>>) \o listItemIDs(Tail(items))

\* The loop without line 333: an ID is never recorded as seen.
RECURSIVE uniqueFromNothingSeen(_, _)
uniqueFromNothingSeen(items, seen) ==
    IF items = <<>> THEN <<>>
    ELSE IF Head(items).Trakt \in seen THEN uniqueFromNothingSeen(Tail(items), seen)
    ELSE <<Head(items)>> \o uniqueFromNothingSeen(Tail(items), seen)

\* uniqueIDs, lines 329-335: the loop over items with the set of IDs seen.
RECURSIVE uniqueFrom(_, _)
uniqueFrom(items, seen) ==
    IF items = <<>> THEN <<>>
    ELSE IF Head(items).Trakt \in seen THEN uniqueFrom(Tail(items), seen)
    ELSE <<Head(items)>> \o uniqueFrom(Tail(items), seen \cup {Head(items).Trakt})

\* Every entry kept, repeated or not.
keepEvery(items) == items

uniqueIDs(items) == uniqueFrom(items, {})

\* fetchCombinedMovies / fetchCombinedShows, given what the two rankings returned.
fetchCombined(trending, streaming) == uniqueIDs(trending \o streaming)

\* What the two ranking queries may return as errors: the streaming query
\* is not made after the trending query failed.
QueryErrors == {<<nil, nil>>, <<"request failed", nil>>, <<nil, "request failed">>}

\* A combined fetch that looks at the error of the trending query only.
trendingError(trendingErr, streamingErr) == trendingErr

\* fetchCombinedMovies / fetchCombinedShows, lines 340-350 and 354-364: the
\* error returned, given the errors of the two rankings.
fetchCombinedError(trendingErr, streamingErr) ==
    IF trendingErr # nil THEN trendingErr ELSE streamingErr

\* Request bodies that name every item as a movie, whatever the list holds.
itemsRequestAsMovies(items, movie) == [Movies |-> items, Shows |-> <<>>]

\* addItems / removeItems: the request body built for a list of the given kind.
itemsRequest(items, movie) ==
    [Movies |-> IF movie THEN items ELSE <<>>, Shows |-> IF movie THEN <<>> ELSE items]

\* A SyncList that replaces the whole list in every run.
replaceAlways(cur, new, full) == [toRemove |-> listItemIDs(cur), toAdd |-> new]

\* SyncList, lines 151-152, 159 and 179: what is to be removed and added.
syncPlan(cur, new, full) ==
    IF full THEN [toRemove |-> listItemIDs(cur), toAdd |-> new]
    ELSE [toRemove |-> calculateDiff(cur, new).toRemove, toAdd |-> calculateDiff(cur, new).toAdd]

\* SyncList returns at the first error, also after a remove request.
addDespiteRemoveError(failed) == "add"

\* SyncList, lines 154-156 and 182-184: where SyncList goes after removeItems.
afterRemove(failed) == IF failed THEN "failed" ELSE "add"

\* SyncAll stopping at the first list that fails.
breakAfterFailure(idx, n) == n + 1

\* SyncAll, lines 92-96: `continue` goes on to the next list definition.
continueAfterFailure(idx, n) == idx + 1

\* ErrAllFailed as soon as any list failed.
syncAllErrorAnyFailed(res) ==
    IF res.Total = 0 THEN nil
    ELSE IF res.Failed > 0 THEN ErrAllFailed
    ELSE nil

\* SyncAll, lines 103-119: the error returned with the result.
syncAllError(res) ==
    IF res.Total = 0 THEN nil
    ELSE IF res.Failed > 0 /\ res.Successful = 0 THEN ErrAllFailed
    ELSE nil

(***************************************************************************)
(* The remote service's side of a list update: a remove request deletes    *)
(* the movies and shows it names by service ID; an add request appends the *)
(* movies and shows it names that the list does not hold yet.              *)
(***************************************************************************)
requestNames(item, req) ==
    \/ item.Movie # <<>> /\ item.Movie[1].Trakt \in Range(extractIDs(req.Movies))
    \/ item.Show # <<>> /\ item.Show[1].Trakt \in Range(extractIDs(req.Shows))

RECURSIVE serverRemove(_, _)
serverRemove(items, req) ==
    IF items = <<>> THEN <<>>
    ELSE (IF requestNames(Head(items), req) THEN <<>> ELSE <<Head(items)>>)
         \o serverRemove(Tail(items), req)

RECURSIVE appendNew(_, _)
appendNew(items, more) ==
    IF more = <<>> THEN items
    ELSE appendNew(IF Head(more) \in Range(items) THEN items ELSE Append(items, Head(more)),
                   Tail(more))

serverAdd(items, req) ==
    appendNew(appendNew(items, asItems(req.Movies, TRUE)), asItems(req.Shows, FALSE))

(***************************************************************************)
(* The sync command (cmd/trakt-sync/main.go)                               *)
(***************************************************************************)
NoExit == -1

\* The list flags after --lists replaced them, lines 284-298.
filteredLists(parts) ==
    [Movies |-> \E i \in DOMAIN parts : TrimSpace(parts[i]) = "trakt-sync-filme",
     Shows |-> \E i \in DOMAIN parts : TrimSpace(parts[i]) = "trakt-sync-serien"]

\* The dry-run tally, lines 302-313.
dryRunResult(defs) ==
    LET n == Cardinality({i \in DOMAIN defs : defs[i].Enabled})
    IN [Successful |-> n, Failed |-> 0, Total |-> n]

syncExitCode(res, e) ==
    IF e # nil THEN (IF e = ErrAllFailed THEN 2 ELSE 2)
    ELSE IF res.Total = 0 THEN 0
    ELSE IF res.Failed > 0 THEN (IF res.Successful = 0 THEN 2 ELSE 1)
    ELSE 0

(***************************************************************************)
(* What the sync command is started with                                   *)
(***************************************************************************)
\* Token expiry: more than an hour away, or within the hour.
ExpiryChoices == {SyncStartTime + 2 * Hour, SyncStartTime + Hour \div 2}

\* Last full refresh: never, a day ago, or seven days ago.
RefreshChoices == {ZeroTime, SyncStartTime - Day, SyncStartTime - 7 * Day}

TraktConfigs ==
    [ClientID : {"", "id"}, ClientSecret : {"", "secret"}, Username : {"", "user"},
     AccessToken : {"", "access1"}, RefreshToken : {"", "refresh1"},
     TokenExpires : ExpiryChoices]

SyncConfigs ==
    [Limit : {0, 20}, ListPrivacy : {" ", "private"}, FullRefreshDays : {0, 7},
     LastFullRefresh : [Movies : RefreshChoices, Shows : RefreshChoices],
     Lists : [Movies : BOOLEAN, Shows : BOOLEAN]]

\* The fields of a configuration that keep runSync from syncing.
Defects(c) ==
    {f \in {"ClientID", "ClientSecret", "Username", "AccessToken", "RefreshToken"} : c.Trakt[f] = ""}
    \cup (IF c.Sync.Limit <= 0 THEN {"Limit"} ELSE {})
    \cup (IF TrimSpace(c.Sync.ListPrivacy) = "" THEN {"ListPrivacy"} ELSE {})
    \cup (IF c.Sync.FullRefreshDays <= 0 THEN {"FullRefreshDays"} ELSE {})

\* Configurations with at most one such field.
Configs == {c \in [Trakt : TraktConfigs, Sync : SyncConfigs] : Cardinality(Defects(c)) <= 1}

\* --lists: absent, one slug, or a slug with a blank and an unknown one.
FilterChoices == {<<>>, <<"trakt-sync-filme">>, <<" trakt-sync-serien", "nope">>}

\* What the rankings return, and what a list of the remote service may hold.
Ranked == {ids \in CatalogIDs : ids.Trakt = 1}

Listed ==
    {MovieItem(ids) : ids \in {c \in CatalogIDs : c.Trakt <= 2}}
    \cup {ShowItem(ids) : ids \in {c \in CatalogIDs : c.Trakt <= 2}}
    \cup {OtherItem}

\* The time one call of the remote service takes.
CallTime == 1000

\* A refreshed access token is valid for this long.
TokenLifetime == Day

NoPlan == [toRemove |-> <<>>, toAdd |-> <<>>]

NoLists == [i \in 1..2 |-> 0]

NoListErrs == [i \in 1..2 |-> nil]

\* Neither ranking query failed, or none was made.
NoFetchErrs == <<nil, nil>>

(***************************************************************************)
(* A component that a specification does not run stays at rest.            *)
(***************************************************************************)
NoCall == [resp |-> 0, err |-> NoErr]

NoTokens == [accessToken |-> "", refreshToken |-> ""]

DaemonIdle ==
    /\ dmPc = "off"
    /\ dmAuth = FALSE
    /\ dmDryRun = FALSE
    /\ passes = 0
    /\ running = 0
    /\ tickPending = FALSE
    /\ passErrs = <<>>

BearersIdle == bearers = {}

NoTokenResponse == [AccessToken |-> "", RefreshToken |-> "", CreatedAt |-> 0, ExpiresIn |-> 0]

TokenIdle ==
    /\ tkPc = "off"
    /\ tkClient = NoTokens
    /\ onTokenRefresh = FALSE
    /\ tkCalls = 0
    /\ tkBefore = NoTokens
    /\ tkRequests = 0
    /\ tkCallbacks = <<>>
    /\ tkResp = NoTokenResponse
    /\ tkReturn = nil

PollIdle ==
    /\ pollPc = "off"
    /\ interval = 0
    /\ expiresIn = 0
    /\ initial = 0
    /\ elapsed = 0
    /\ tickAt = 0
    /\ period = 0
    /\ slowDowns = 0
    /\ tokenRequests = 0
    /\ lastAnswer = NoErr
    /\ pollReturn = "none"
    /\ returnedAt = 0
    /\ pollTokens = NoTokens

NoItems == [items |-> <<>>, err |-> NoErr]

PagesIdle ==
    /\ pgPc = "off"
    /\ listPages = <<>>
    /\ page = 0
    /\ allItems = <<>>
    /\ pgReturn = NoItems

EnsureIdle ==
    /\ ensPc = "off"
    /\ ensCalls = 0
    /\ ensPrivacy = ""
    /\ ensPresent = FALSE
    /\ ensAttempt = 0
    /\ ensGet = NoCall
    /\ ensPosts = <<>>
    /\ ensReturn = NoErr
    /\ remoteLists = <<>>

UniqueIdle ==
    /\ uqPc = "off"
    /\ uqItems = <<>>
    /\ uqUnique = <<>>
    /\ uqAgain = <<>>

SyncIdle ==
    /\ syncPc = "off"
    /\ cfg = <<>>
    /\ disk = <<>>
    /\ dryRun = FALSE
    /\ listsFilter = <<>>
    /\ accessToken = ""
    /\ refreshToken = ""
    /\ configDirty = FALSE
    /\ result = ZeroResult
    /\ syncErr = nil
    /\ exitCode = NoExit
    /\ listIdx = 0
    /\ lists = <<>>
    /\ syncCalls = NoLists
    /\ listErr = NoListErrs
    /\ fetched = <<>>
    /\ fetchErrs = NoFetchErrs
    /\ newItems = <<>>
    /\ currentItems = <<>>
    /\ fullRefresh = FALSE
    /\ pending = NoPlan
    /\ sent = <<>>
    /\ serverItems = <<>>

NoWait == [remaining |-> 0, reset |-> ZeroTime, at |-> 0]

ClientIdle ==
    /\ reqPc = "off"
    /\ calls = 0
    /\ rateLimitRemaining = 0
    /\ rateLimitReset = ZeroTime
    /\ attempt = 0
    /\ retryAfter = 0
    /\ resp = 0
    /\ respBody = NoBody
    /\ err = NoErr
    /\ attemptsMade = 0
    /\ attemptErr = NoErr
    /\ backoffSlept = 0
    /\ waitSeen = NoWait
    /\ waitSlept = 0
    /\ respHeader = NoHeaders
    /\ zeroReported = FALSE

RequestIdle ==
    /\ ClientIdle
    /\ now = StartTime

BackoffIdle ==
    /\ boPc = "off"
    /\ boAttempt = 0
    /\ boDelay = ZeroWord(Bytes64)

(***************************************************************************)
(* SpecDiff: calculateDiff on every bounded input                          *)
(***************************************************************************)
DiffIdle ==
    /\ diffPc = "off"
    /\ current = <<>>
    /\ target = <<>>
    /\ isMovie = TRUE
    /\ toAdd = <<>>
    /\ toRemove = <<>>
    /\ updated = <<>>
    /\ toAdd2 = <<>>
    /\ toRemove2 = <<>>

InitDiff ==
    /\ diffPc = "input"
    /\ current \in SeqsUpTo(ListItems, MaxCur)
    /\ target \in SeqsUpTo(CatalogIDs, MaxTgt)
    /\ isMovie \in BOOLEAN
    /\ toAdd = <<>>
    /\ toRemove = <<>>
    /\ updated = <<>>
    /\ toAdd2 = <<>>
    /\ toRemove2 = <<>>
    /\ BackoffIdle
    /\ RequestIdle
    /\ SyncIdle
    /\ UniqueIdle
    /\ EnsureIdle
    /\ PagesIdle
    /\ PollIdle
    /\ TokenIdle
    /\ BearersIdle
    /\ DaemonIdle

\* toAdd, toRemove := s.calculateDiff(currentItems, newItems)
Diff ==
    /\ diffPc = "input"
    /\ toAdd' = calculateDiff(current, target).toAdd
    /\ toRemove' = calculateDiff(current, target).toRemove
    /\ diffPc' = "diffed"
    /\ UNCHANGED <<current, target, isMovie, updated, toAdd2, toRemove2, notDiffVars>>

\* The computed diff is applied: remove first, then add.
ApplyDiff ==
    /\ diffPc = "diffed"
    /\ updated' = applyDiff(current, toAdd, toRemove, isMovie)
    /\ diffPc' = "applied"
    /\ UNCHANGED <<current, target, isMovie, toAdd, toRemove, toAdd2, toRemove2, notDiffVars>>

\* The updated list is diffed against the same target.
ReDiff ==
    /\ diffPc = "applied"
    /\ toAdd2' = calculateDiff(updated, target).toAdd
    /\ toRemove2' = calculateDiff(updated, target).toRemove
    /\ diffPc' = "rediffed"
    /\ UNCHANGED <<current, target, isMovie, toAdd, toRemove, updated, notDiffVars>>

NextDiff == Diff \/ ApplyDiff \/ ReDiff

SpecDiff == InitDiff /\ [][NextDiff]_vars

(***************************************************************************)
(* SpecBackoff: backoffDuration on every attempt index                     *)
(***************************************************************************)
InitBackoff ==
    /\ boPc = "input"
    /\ boAttempt \in 0..MaxAttempt
    /\ boDelay = ZeroWord(Bytes64)
    /\ DiffIdle
    /\ RequestIdle
    /\ SyncIdle
    /\ UniqueIdle
    /\ EnsureIdle
    /\ PagesIdle
    /\ PollIdle
    /\ TokenIdle
    /\ BearersIdle
    /\ DaemonIdle

\* delay := backoffDuration(attempt)
Backoff ==
    /\ boPc = "input"
    /\ boDelay' = backoffDuration(boAttempt)
    /\ boPc' = "done"
    /\ UNCHANGED <<boAttempt, notBoVars>>

(***************************************************************************)
(* SpecRequest: doRequest calls on one client, from NewClient on           *)
(***************************************************************************)
\* NewClient: rateLimitRemaining and rateLimitReset hold their zero values.
InitRequest ==
    /\ reqPc = "idle"
    /\ calls = 0
    /\ now = StartTime
    /\ rateLimitRemaining = 0
    /\ rateLimitReset = ZeroTime
    /\ attempt = 0
    /\ retryAfter = 0
    /\ resp = 0
    /\ respBody = NoBody
    /\ err = NoErr
    /\ attemptsMade = 0
    /\ attemptErr = NoErr
    /\ backoffSlept = 0
    /\ waitSeen = NoWait
    /\ waitSlept = 0
    /\ respHeader = NoHeaders
    /\ zeroReported = FALSE
    /\ DiffIdle
    /\ BackoffIdle
    /\ SyncIdle
    /\ UniqueIdle
    /\ EnsureIdle
    /\ PagesIdle
    /\ PollIdle
    /\ TokenIdle
    /\ BearersIdle
    /\ DaemonIdle

\* A caller enters doRequest: lines 68-72.
StartCall ==
    /\ reqPc \in {"idle", "returned"}
    /\ calls < MaxCalls
    /\ calls' = calls + 1
    /\ reqPc' = "loop"
    /\ attempt' = 0
    /\ retryAfter' = 0
    /\ resp' = 0
    /\ respBody' = NoBody
    /\ err' = NoErr
    /\ attemptsMade' = 0
    /\ attemptErr' = NoErr
    /\ backoffSlept' = 0
    /\ waitSeen' = NoWait
    /\ waitSlept' = 0
    /\ respHeader' = NoHeaders
    /\ UNCHANGED <<now, rateLimitRemaining, rateLimitReset, zeroReported, notReqVars>>

\* Lines 88-110, after doRequestOnce returned e: return or go round again.
AfterAttempt(e) ==
    /\ attemptErr' = e
    /\ err' = assignErr(attempt, err, e)
    /\ attemptsMade' = attemptsMade + 1
    /\ IF e = NoErr
       THEN /\ reqPc' = "returned"
            /\ UNCHANGED <<attempt, retryAfter>>
       ELSE /\ retryAfter' = nextRetryAfter(e)
            /\ IF shouldRetry(e)
               THEN /\ attempt' = attempt + 1
                    /\ reqPc' = IF attempt + 1 < maxRetries THEN "loop" ELSE "returned"
               ELSE /\ reqPc' = "returned"
                    /\ UNCHANGED attempt

\* One iteration of the loop of doRequest whose httpClient.Do fails: the
\* backoff sleep, waitForRateLimit, and doRequestOnce returning "request failed".
AttemptRequestFails ==
    /\ reqPc = "loop"
    /\ attempt < maxRetries
    /\ LET delay == retryDelay(attempt, retryAfter)
           t1 == now + delay
           wait == waitForRateLimit(rateLimitRemaining, rateLimitReset, t1)
       IN /\ backoffSlept' = delay
          /\ waitSeen' = [remaining |-> rateLimitRemaining, reset |-> rateLimitReset, at |-> t1]
          /\ waitSlept' = wait
          /\ now' = t1 + wait
          /\ resp' = 0
          /\ respBody' = NoBody
          /\ respHeader' = NoHeaders
          /\ AfterAttempt(RequestFailed)
    /\ UNCHANGED <<calls, rateLimitRemaining, rateLimitReset, zeroReported, notReqVars>>

\* One iteration of the loop of doRequest that receives a response: the
\* backoff sleep, waitForRateLimit, and doRequestOnce with updateRateLimit.
AttemptGetsResponse ==
    /\ reqPc = "loop"
    /\ attempt < maxRetries
    /\ \E r \in Responses :
        LET delay == retryDelay(attempt, retryAfter)
            t1 == now + delay
            wait == waitForRateLimit(rateLimitRemaining, rateLimitReset, t1)
            t2 == t1 + wait
            limits == updateRateLimit(r.headers, rateLimitRemaining, rateLimitReset, t2)
        IN /\ backoffSlept' = delay
           /\ waitSeen' = [remaining |-> rateLimitRemaining, reset |-> rateLimitReset, at |-> t1]
           /\ waitSlept' = wait
           /\ now' = t2
           /\ rateLimitRemaining' = limits[1]
           /\ rateLimitReset' = limits[2]
           /\ resp' = r.status
           /\ respBody' = r.body
           /\ respHeader' = r.headers
           /\ zeroReported' = (zeroReported \/ r.headers.remaining = IntH(0))
           /\ AfterAttempt(responseError(r, t2))
    /\ UNCHANGED <<calls, notReqVars>>

NextRequest == StartCall \/ AttemptRequestFails \/ AttemptGetsResponse

SpecRequest == InitRequest /\ [][NextRequest]_vars

(***************************************************************************)
(* SpecSync: one run of the `sync` command, from the loaded configuration  *)
(* to the exit code.  A call of the client is one step; it returns what    *)
(* doRequest returned for it, a result or an error.                        *)
(***************************************************************************)
flagVars == <<dryRun, listsFilter>>
tokenVars == <<accessToken, refreshToken>>
tallyVars == <<result, listIdx, lists, syncCalls, listErr>>
listVars == <<fetched, fetchErrs, newItems, currentItems, fullRefresh, pending, sent, serverItems>>

InitSync ==
    /\ syncPc = "start"
    /\ cfg \in Configs
    /\ disk = cfg
    /\ dryRun \in BOOLEAN
    /\ listsFilter \in FilterChoices
    /\ accessToken = ""
    /\ refreshToken = ""
    /\ configDirty = FALSE
    /\ result = ZeroResult
    /\ syncErr = nil
    /\ exitCode = NoExit
    /\ listIdx = 0
    /\ lists = <<>>
    /\ syncCalls = NoLists
    /\ listErr = NoListErrs
    /\ fetched = <<>>
    /\ fetchErrs = NoFetchErrs
    /\ newItems = <<>>
    /\ currentItems = <<>>
    /\ fullRefresh = FALSE
    /\ pending = NoPlan
    /\ sent = <<>>
    /\ serverItems = <<>>
    /\ ClientIdle
    /\ now = SyncStartTime
    /\ DiffIdle
    /\ BackoffIdle
    /\ UniqueIdle
    /\ EnsureIdle
    /\ PagesIdle
    /\ PollIdle
    /\ TokenIdle
    /\ BearersIdle
    /\ DaemonIdle

\* A run that fails when the configuration could not be written.
failAfterSave(e, saved) == IF saved THEN e ELSE "failed to save config"

\* runSync, lines 270-272 and 325-327: the error of config.Save is logged;
\* the error the run goes on with is the one it had.
afterSave(e, saved) == e

\* A request that carries the token the configuration held at the start.
authorizationAtStart(tok) == [scheme |-> "Bearer", token |-> "access1"]

\* doRequestOnce, client.go lines 128-130: the Authorization header of a
\* request of a client whose accessToken is tok.
authorization(tok) ==
    IF tok # "" THEN [scheme |-> "Bearer", token |-> tok] ELSE [scheme |-> "", token |-> ""]

\* runSync, lines 245-276: the checks before anything is synced, NewClient,
\* and whether the access token is refreshed first.
RunSyncStart ==
    /\ syncPc = "start"
    /\ IF Validate(cfg) # nil
       THEN /\ syncErr' = "config validation failed"
            /\ syncPc' = "returned"
            /\ UNCHANGED tokenVars
       ELSE IF ~dryRun /\ ~IsAuthenticated(cfg)
       THEN /\ syncErr' = "not authenticated"
            /\ syncPc' = "returned"
            /\ UNCHANGED tokenVars
       ELSE /\ accessToken' = cfg.Trakt.AccessToken
            /\ refreshToken' = cfg.Trakt.RefreshToken
            /\ syncErr' = nil
            /\ syncPc' = IF ~dryRun /\ NeedsRefresh(cfg, now) THEN "refresh" ELSE "filter"
    /\ UNCHANGED <<cfg, disk, flagVars, configDirty, exitCode, tallyVars, listVars, now, notSyncVars>>
    /\ UNCHANGED bearers

\* runSync, lines 277-281: client.RefreshAccessToken() with the callback of
\* lines 261-274, which stores the tokens and saves the configuration.
RefreshAccessToken ==
    /\ syncPc = "refresh"
    /\ now' = now + CallTime
    /\ \E failed \in BOOLEAN, saved \in BOOLEAN :
         IF refreshToken = "" \/ failed
         THEN /\ syncErr' = "failed to refresh token"
              /\ syncPc' = "returned"
              /\ UNCHANGED <<cfg, disk, tokenVars>>
         ELSE /\ accessToken' = "access2"
              /\ refreshToken' = "refresh2"
              /\ cfg' = [cfg EXCEPT !.Trakt.AccessToken = "access2",
                                    !.Trakt.RefreshToken = "refresh2",
                                    !.Trakt.TokenExpires = now + TokenLifetime]
              /\ disk' = IF saved THEN Save(cfg') ELSE disk
              /\ syncErr' = afterSave(syncErr, saved)
              /\ syncPc' = IF syncErr' = nil THEN "filter" ELSE "returned"
    /\ UNCHANGED <<flagVars, configDirty, exitCode, tallyVars, listVars, notSyncVars>>
    /\ bearers' = bearers \cup {[op |-> "refresh", auth |-> authorization(accessToken)]}

\* runSync, lines 284-316: --lists replaces the list flags; a dry run tallies
\* and returns; otherwise SyncAll starts (sync.go lines 77-80).
SelectLists ==
    /\ syncPc = "filter"
    /\ cfg' = IF listsFilter # <<>>
              THEN [cfg EXCEPT !.Sync.Lists = filteredLists(listsFilter)]
              ELSE cfg
    /\ IF dryRun
       THEN /\ result' = dryRunResult(GetListDefinitions(cfg'))
            /\ syncPc' = "returned"
            /\ UNCHANGED <<listIdx, lists>>
       ELSE /\ result' = ZeroResult
            /\ lists' = GetListDefinitions(cfg')
            /\ listIdx' = 1
            /\ syncPc' = "loop"
    /\ UNCHANGED <<disk, flagVars, tokenVars, configDirty, syncErr, exitCode, syncCalls,
                   listErr, listVars, now, notSyncVars>>
    /\ UNCHANGED bearers

\* SyncAll, lines 85-88: a disabled list is skipped.
SkipDisabled ==
    /\ syncPc = "loop"
    /\ listIdx <= Len(lists)
    /\ ~lists[listIdx].Enabled
    /\ listIdx' = listIdx + 1
    /\ UNCHANGED <<syncPc, cfg, disk, flagVars, tokenVars, configDirty, result, syncErr,
                   exitCode, lists, syncCalls, listErr, listVars, now, notSyncVars>>
    /\ UNCHANGED bearers

\* SyncAll, lines 90-92: an enabled list is counted and SyncList is called.
CallSyncList ==
    /\ syncPc = "loop"
    /\ listIdx <= Len(lists)
    /\ lists[listIdx].Enabled
    /\ result' = [result EXCEPT !.Total = @ + 1]
    /\ syncCalls' = [syncCalls EXCEPT ![listIdx] = @ + 1]
    /\ fetched' = <<>>
    /\ fetchErrs' = NoFetchErrs
    /\ newItems' = <<>>
    /\ currentItems' = <<>>
    /\ fullRefresh' = FALSE
    /\ pending' = NoPlan
    /\ sent' = <<>>
    /\ serverItems' = <<>>
    /\ syncPc' = "ensure"
    /\ UNCHANGED <<cfg, disk, flagVars, tokenVars, configDirty, syncErr, exitCode, listIdx,
                   lists, listErr, now, notSyncVars>>
    /\ UNCHANGED bearers

\* SyncList returned the error e: SyncAll, lines 92-96.
ListFailed(e) ==
    /\ result' = [result EXCEPT !.Failed = @ + 1]
    /\ listErr' = [listErr EXCEPT ![listIdx] = e]
    /\ listIdx' = continueAfterFailure(listIdx, Len(lists))
    /\ syncPc' = "loop"
    /\ UNCHANGED <<cfg, configDirty, lists, syncCalls>>

\* SyncList returned nil, after markFullRefresh in a full refresh:
\* SyncList lines 165-176 and 193-204, SyncAll line 98.
ListSynced ==
    /\ cfg' = refreshStamp(cfg, fullRefresh, lists[listIdx].IsMovie, now')
    /\ configDirty' = (configDirty \/ fullRefresh)
    /\ result' = [result EXCEPT !.Successful = @ + 1]
    /\ listIdx' = listIdx + 1
    /\ syncPc' = "loop"
    /\ UNCHANGED <<lists, syncCalls, listErr>>

\* SyncList, lines 128-136: EnsureListExists finds the list, creates it after
\* a 404, or fails in GetList or in CreateList.
EnsureListExists ==
    /\ syncPc = "ensure"
    /\ now' = now + CallTime
    /\ \E outcome \in {"found", "created", "failed"} :
         CASE outcome = "found" ->
                /\ serverItems' \in SeqsUpTo(Listed, MaxList)
                /\ syncPc' = "fetch"
                /\ UNCHANGED <<cfg, configDirty, tallyVars>>
           [] outcome = "created" ->
                /\ serverItems' = <<>>
                /\ syncPc' = "fetch"
                /\ UNCHANGED <<cfg, configDirty, tallyVars>>
           [] outcome = "failed" ->
                /\ ListFailed("failed to ensure list exists")
                /\ UNCHANGED serverItems
    /\ UNCHANGED <<disk, flagVars, tokenVars, syncErr, exitCode, fetched, fetchErrs, newItems, currentItems,
                   fullRefresh, pending, sent, notSyncVars>>
    /\ bearers' = bearers \cup {[op |-> "list", auth |-> authorization(accessToken)]}

\* SyncList, lines 138-142: the trending ranking, then the streaming ranking.
FetchItems ==
    /\ syncPc = "fetch"
    /\ now' = now + CallTime
    /\ \E errs \in QueryErrors :
         /\ fetchErrs' = errs
         /\ IF fetchCombinedError(errs[1], errs[2]) # nil
            THEN /\ ListFailed("failed to fetch items")
                 /\ UNCHANGED <<fetched, newItems>>
            ELSE \E trending \in SeqsUpTo(Ranked, MaxFetch), streaming \in SeqsUpTo(Ranked, MaxFetch) :
                   /\ fetched' = <<IF errs[1] = nil THEN trending ELSE <<>>,
                                   IF errs[2] = nil THEN streaming ELSE <<>> >>
                   /\ newItems' = uniqueIDs(fetchCombined(fetched'[1], fetched'[2]))
                   /\ syncPc' = "items"
                   /\ UNCHANGED <<cfg, configDirty, tallyVars>>
    /\ UNCHANGED <<disk, flagVars, tokenVars, syncErr, exitCode, currentItems, fullRefresh,
                   pending, sent, serverItems, notSyncVars>>
    /\ bearers' = bearers \cup {[op |-> "fetch", auth |-> authorization(accessToken)]}

\* SyncList, lines 146-152 and 179: GetListItems, then the mode and what it
\* removes and adds.
GetListItems ==
    /\ syncPc = "items"
    /\ now' = now + CallTime
    /\ \/ /\ ListFailed("failed to get current list items")
          /\ UNCHANGED <<currentItems, fullRefresh, pending>>
       \/ /\ currentItems' = serverItems
          /\ fullRefresh' = shouldFullRefresh(cfg, lists[listIdx].IsMovie, now)
          /\ pending' = syncPlan(currentItems', newItems, fullRefresh')
          /\ syncPc' = "remove"
          /\ UNCHANGED <<cfg, configDirty, tallyVars>>
    /\ UNCHANGED <<disk, flagVars, tokenVars, syncErr, exitCode, fetched, fetchErrs, newItems, sent, serverItems,
                   notSyncVars>>
    /\ bearers' = bearers \cup {[op |-> "items", auth |-> authorization(accessToken)]}

\* SyncList, lines 153 and 181: nothing to remove, no remove request.
RemoveSkipped ==
    /\ syncPc = "remove"
    /\ Len(pending.toRemove) = 0
    /\ syncPc' = "add"
    /\ UNCHANGED <<cfg, disk, flagVars, tokenVars, configDirty, syncErr, exitCode, tallyVars,
                   listVars, now, notSyncVars>>
    /\ UNCHANGED bearers

\* SyncList, lines 154-156 and 182-184: removeItems submits the remove request.
RemoveItems ==
    /\ syncPc = "remove"
    /\ now' = now + CallTime
    /\ Len(pending.toRemove) > 0
    /\ \E failed \in BOOLEAN :
         LET req == itemsRequest(pending.toRemove, lists[listIdx].IsMovie)
         IN /\ sent' = Append(sent, [op |-> "remove", req |-> req, failed |-> failed])
            /\ serverItems' = IF failed THEN serverItems ELSE serverRemove(serverItems, req)
            /\ pending' = [pending EXCEPT !.toRemove = <<>>]
            /\ IF afterRemove(failed) = "failed"
               THEN ListFailed("failed to remove items")
               ELSE /\ syncPc' = "add"
                    /\ UNCHANGED <<cfg, configDirty, tallyVars>>
    /\ UNCHANGED <<disk, flagVars, tokenVars, syncErr, exitCode, fetched, fetchErrs, newItems, currentItems,
                   fullRefresh, notSyncVars>>
    /\ bearers' = bearers \cup {[op |-> "remove", auth |-> authorization(accessToken)]}

\* SyncList, lines 159 and 187: nothing to add, no add request.
AddSkipped ==
    /\ syncPc = "add"
    /\ Len(pending.toAdd) = 0
    /\ UNCHANGED <<disk, flagVars, tokenVars, syncErr, exitCode, listVars, now, notSyncVars>>
    /\ ListSynced
    /\ UNCHANGED bearers

\* SyncList, lines 160-162 and 188-190: addItems submits the add request.
AddItems ==
    /\ syncPc = "add"
    /\ now' = now + CallTime
    /\ Len(pending.toAdd) > 0
    /\ \E failed \in BOOLEAN :
         LET req == itemsRequest(pending.toAdd, lists[listIdx].IsMovie)
         IN /\ sent' = Append(sent, [op |-> "add", req |-> req, failed |-> failed])
            /\ serverItems' = IF failed THEN serverItems ELSE serverAdd(serverItems, req)
            /\ pending' = [pending EXCEPT !.toAdd = <<>>]
            /\ IF failed THEN ListFailed("failed to add items") ELSE ListSynced
    /\ UNCHANGED <<disk, flagVars, tokenVars, syncErr, exitCode, fetched, fetchErrs, newItems, currentItems,
                   fullRefresh, notSyncVars>>
    /\ bearers' = bearers \cup {[op |-> "add", auth |-> authorization(accessToken)]}

\* SyncAll, lines 101-119, and runSync, lines 318-329: the error SyncAll
\* returns, and the configuration saved when a full refresh was recorded.
SyncAllReturns ==
    /\ syncPc = "loop"
    /\ listIdx > Len(lists)
    /\ \E saved \in BOOLEAN :
         /\ disk' = IF configDirty /\ saved THEN Save(cfg) ELSE disk
         /\ syncErr' = afterSave(syncAllError(result), ~configDirty \/ saved)
    /\ syncPc' = "returned"
    /\ UNCHANGED <<cfg, flagVars, tokenVars, configDirty, exitCode, tallyVars, listVars,
                   now, notSyncVars>>
    /\ UNCHANGED bearers

\* syncCmd, lines 76-83: exitCode := syncExitCode(result, err).
Exit ==
    /\ syncPc = "returned"
    /\ exitCode' = syncExitCode(result, syncErr)
    /\ syncPc' = "exited"
    /\ UNCHANGED <<cfg, disk, flagVars, tokenVars, configDirty, syncErr, tallyVars, listVars,
                   now, notSyncVars>>
    /\ UNCHANGED bearers

NextSync ==
    \/ RunSyncStart
    \/ RefreshAccessToken
    \/ SelectLists
    \/ SkipDisabled
    \/ CallSyncList
    \/ EnsureListExists
    \/ FetchItems
    \/ GetListItems
    \/ RemoveSkipped
    \/ RemoveItems
    \/ AddSkipped
    \/ AddItems
    \/ SyncAllReturns
    \/ Exit

SpecSync == InitSync /\ [][NextSync]_vars

(***************************************************************************)
(* SpecUnique: uniqueIDs on every bounded input, and on its own output     *)
(***************************************************************************)
InitUnique ==
    /\ uqPc = "input"
    /\ uqItems \in SeqsUpTo(MediaIDs, MaxUnique)
    /\ uqUnique = <<>>
    /\ uqAgain = <<>>
    /\ DiffIdle
    /\ BackoffIdle
    /\ RequestIdle
    /\ SyncIdle
    /\ EnsureIdle
    /\ PagesIdle
    /\ PollIdle
    /\ TokenIdle
    /\ BearersIdle
    /\ DaemonIdle

\* unique := uniqueIDs(items)
Unique ==
    /\ uqPc = "input"
    /\ uqUnique' = uniqueIDs(uqItems)
    /\ uqPc' = "once"
    /\ UNCHANGED <<uqItems, uqAgain, notUqVars>>

\* newItems = uniqueIDs(newItems) on what a fetch already deduplicated
UniqueAgain ==
    /\ uqPc = "once"
    /\ uqAgain' = uniqueIDs(uqUnique)
    /\ uqPc' = "twice"
    /\ UNCHANGED <<uqItems, uqUnique, notUqVars>>

NextUnique == Unique \/ UniqueAgain

SpecUnique == InitUnique /\ [][NextUnique]_vars

(***************************************************************************)
(* SpecEnsure: EnsureListExists calls for one slug.  Each step is one      *)
(* iteration of the doRequest loop of the GET or of the POST; the sleeps   *)
(* and the rate-limit bookkeeping of the loop are those of SpecRequest and *)
(* have no part in what the call returns.                                  *)
(***************************************************************************)
\* The transport gave no response: c.httpClient.Do returned an error.
NoResponse == [status |-> 0, headers |-> NoHeaders, body |-> NoBody]

\* Responses with one of the given statuses.
Answers(statuses) ==
    {r \in [status : statuses, headers : {NoHeaders},
            body : UnreadBodies \cup ResultBodies \cup {Body("json", "E1", "D1", "{E1,D1}")}] :
        \/ r.status \in {200, 201, 404} /\ r.body \in UnreadBodies
        \/ r.status < 400 /\ r.body \in ResultBodies
        \/ r.status >= 400 /\ r.body.Error # ""}

\* What doRequestOnce returns as error for an answer, or for none.
attemptError(r, t) == IF r.status = 0 THEN RequestFailed ELSE responseError(r, t)

\* Whether the doRequest loop makes another attempt after this one.
retries(att, e) == e # NoErr /\ shouldRetry(e) /\ att + 1 < maxRetries

\* GetList taking every error that came with a response for "not found".
notFoundOnAnyResponse(status, e) == e # NoErr /\ status # 0

\* GetList, lines 21-24: the error that is taken for "no such list".
notFound(status, e) == e # NoErr /\ status # 0 /\ status = 404

\* EnsureListExists, lines 104-106: the privacy of the create request.
createPrivacy(privacy) == IF privacy = "" THEN "private" ELSE privacy

\* What the service answers to GET /users/{user}/lists/{slug}.
GetAnswers(present) ==
    Answers((IF present THEN {200} ELSE {404}) \cup {403, 429, 500}) \cup {NoResponse}

\* What happens to POST /users/{user}/lists: whether the service received
\* and carried out the request, and what came back.  A request that was
\* carried out is answered 201, or its answer is lost on the way.
PostOutcomes ==
    {[done |-> TRUE, answer |-> r] : r \in Answers({201}) \cup {NoResponse}}
    \cup {[done |-> FALSE, answer |-> r] : r \in Answers({403, 429, 500}) \cup {NoResponse}}

InitEnsure ==
    /\ ensPc = "idle"
    /\ ensCalls = 0
    /\ ensPrivacy = ""
    /\ ensPresent = FALSE
    /\ ensAttempt = 0
    /\ ensGet = NoCall
    /\ ensPosts = <<>>
    /\ ensReturn = NoErr
    /\ remoteLists \in {<<>>, <<"public">>}
    /\ DiffIdle
    /\ BackoffIdle
    /\ RequestIdle
    /\ SyncIdle
    /\ UniqueIdle
    /\ PagesIdle
    /\ PollIdle
    /\ TokenIdle
    /\ BearersIdle
    /\ DaemonIdle

\* c.EnsureListExists(username, listSlug, listName, description, privacy)
EnsureStart ==
    /\ ensPc = "idle"
    /\ ensCalls < MaxEnsure
    /\ ensCalls' = ensCalls + 1
    /\ ensPrivacy' \in {"", "public"}
    /\ ensPresent' = (remoteLists # <<>>)
    /\ ensAttempt' = 0
    /\ ensGet' = NoCall
    /\ ensPosts' = <<>>
    /\ ensPc' = "get"
    /\ UNCHANGED <<ensReturn, remoteLists, notEnsVars>>

\* GetList: one attempt of doRequest("GET", ...), and when doRequest returns,
\* GetList lines 21-27 and EnsureListExists lines 98-103.
GetAttempt ==
    /\ ensPc = "get"
    /\ \E r \in GetAnswers(remoteLists # <<>>) :
         LET e == attemptError(r, now)
         IN IF retries(ensAttempt, e)
            THEN /\ ensAttempt' = ensAttempt + 1
                 /\ UNCHANGED <<ensPc, ensGet, ensReturn>>
            ELSE /\ ensGet' = [resp |-> r.status, err |-> e]
                 /\ ensAttempt' = 0
                 /\ IF e = NoErr
                    THEN ensPc' = "idle" /\ ensReturn' = NoErr
                    ELSE IF notFound(r.status, e)
                    THEN ensPc' = "create" /\ UNCHANGED ensReturn
                    ELSE ensPc' = "idle" /\ ensReturn' = e
    /\ UNCHANGED <<ensCalls, ensPrivacy, ensPresent, ensPosts, remoteLists, notEnsVars>>

\* CreateList: one attempt of doRequest("POST", ...), and when doRequest
\* returns, CreateList lines 65-69 and EnsureListExists lines 114-119.
CreateAttempt ==
    /\ ensPc = "create"
    /\ \E o \in PostOutcomes :
         LET e == attemptError(o.answer, now)
         IN /\ ensPosts' = Append(ensPosts, createPrivacy(ensPrivacy))
            /\ remoteLists' = IF o.done THEN Append(remoteLists, createPrivacy(ensPrivacy))
                               ELSE remoteLists
            /\ IF retries(ensAttempt, e)
               THEN /\ ensAttempt' = ensAttempt + 1
                    /\ UNCHANGED <<ensPc, ensReturn>>
               ELSE /\ ensAttempt' = 0
                    /\ ensPc' = "idle"
                    /\ ensReturn' = e
    /\ UNCHANGED <<ensCalls, ensPrivacy, ensPresent, ensGet, notEnsVars>>

NextEnsure == EnsureStart \/ GetAttempt \/ CreateAttempt

SpecEnsure == InitEnsure /\ [][NextEnsure]_vars

(***************************************************************************)
(* SpecPages: one GetListItems call on a list the service holds in pages.  *)
(* A step is one turn of the page loop; the doRequest of the turn is taken *)
(* by its outcome.                                                         *)
(***************************************************************************)
\* parsePaginationPageCount(headers), from the X-Pagination-Page-Count value.
parsePaginationPageCount(value) ==
    IF value.kind = "absent" THEN 0
    ELSE IF value.kind # "int" THEN 0
    ELSE value.val

\* GetListItems, line 49: the loop ends after this page.
lastPage(pageCount, p) == pageCount = 0 \/ p >= pageCount

\* The items the service returns for page p of the list.
pageItems(pages, p) == IF p \in DOMAIN pages THEN pages[p] ELSE <<>>

\* The X-Pagination-Page-Count values a response may carry: the list's page
\* count, none, or a value strconv.Atoi rejects.
PageCountHeaders(pages) == {IntH(Len(pages)), Absent, TextH}

\* The errors doRequest may end a page request with.
PageErrors ==
    {attemptError(r, StartTime) : r \in Answers({403, 404, 500}) \cup {NoResponse}} \ {NoErr}

InitPages ==
    /\ pgPc = "call"
    /\ listPages \in SeqsUpTo({<<1>>, <<2>>}, MaxPages)
    /\ page = 0
    /\ allItems = <<>>
    /\ pgReturn = NoItems
    /\ DiffIdle
    /\ BackoffIdle
    /\ RequestIdle
    /\ SyncIdle
    /\ UniqueIdle
    /\ EnsureIdle
    /\ PollIdle
    /\ TokenIdle
    /\ BearersIdle
    /\ DaemonIdle

\* c.GetListItems(username, listSlug), lines 31-36
GetListItemsStart ==
    /\ pgPc = "call"
    /\ pgPc' = "loop"
    /\ page' = 1
    /\ allItems' = <<>>
    /\ UNCHANGED <<listPages, pgReturn, notPgVars>>

\* lines 41-44: the page request failed
PageFailed ==
    /\ pgPc = "loop"
    /\ \E e \in PageErrors : pgReturn' = [items |-> <<>>, err |-> e]
    /\ pgPc' = "done"
    /\ UNCHANGED <<listPages, page, allItems, notPgVars>>

\* lines 41-56: the page request succeeded
PageFetched ==
    /\ pgPc = "loop"
    /\ \E h \in PageCountHeaders(listPages) :
         LET pageCount == parsePaginationPageCount(h)
         IN /\ allItems' = allItems \o pageItems(listPages, page)
            /\ IF lastPage(pageCount, page)
               THEN /\ pgPc' = "done"
                    /\ pgReturn' = [items |-> allItems', err |-> NoErr]
                    /\ UNCHANGED page
               ELSE /\ page' = page + 1
                    /\ UNCHANGED <<pgPc, pgReturn>>
    /\ UNCHANGED <<listPages, notPgVars>>

NextPages == GetListItemsStart \/ PageFailed \/ PageFetched

SpecPages == InitPages /\ [][NextPages]_vars

(***************************************************************************)
(* SpecPoll: one PollForToken call.  Time is counted in seconds from the   *)
(* call.  The ticker holds at most one undelivered tick; the select takes  *)
(* whichever of the ticker and the timeout is ready first, and either one  *)
(* when both are.                                                          *)
(***************************************************************************)
DefaultInterval == 5
DefaultExpiresIn == 600
SlowDownStep == 5

\* What requestToken returns as error: the device-token answers of the
\* service as doRequestOnce turns them into errors, and a lost request.
TokenAnswers ==
    {[status |-> 200, headers |-> NoHeaders, body |-> Body("json", "", "", "{}")], NoResponse}
    \cup {[status |-> a[1], headers |-> NoHeaders, body |-> Body("json", a[2], "", "{}")] :
            a \in {<<400, "authorization_pending">>, <<429, "slow_down">>, <<418, "access_denied">>,
                   <<410, "expired_token">>, <<400, "">>, <<404, "">>, <<400, "invalid_grant">>}}

\* How long a requestToken call may take, with its retries and waits.
RequestTimes == {0, 4}

\* PollForToken never leaving the loop on an error of the service.
pollStepNeverTerminal(e) ==
    IF e = NoErr THEN "Authorized"
    ELSE IF e.kind = "api" THEN "continue"
    ELSE "Failed"

\* PollForToken, lines 43-68: what the loop does with requestToken's error.
pollStep(e) ==
    IF e = NoErr THEN "Authorized"
    ELSE IF e.kind = "api"
         THEN IF e.Code = "authorization_pending" THEN "continue"
              ELSE IF e.Code = "slow_down" THEN "slow_down"
              ELSE IF e.Code = "access_denied" THEN "Denied"
              ELSE IF e.Code = "expired_token" THEN "Expired"
              ELSE IF e.Code = "" /\ e.Status = 400 THEN "continue"
              ELSE "Failed"
    ELSE "Failed"

\* A loop that leaves the interval alone on slow_down.
keepInterval(step, i) == i

\* lines 51-53: the interval after the answer.
nextInterval(step, i) == IF step = "slow_down" THEN i + SlowDownStep ELSE i

\* When the ticker's tick can be received, and the timeout.
tickReady == IF tickAt > elapsed THEN tickAt ELSE elapsed
timeoutReady == IF expiresIn > elapsed THEN expiresIn ELSE elapsed

\* The tick after the one received at time t: undelivered ticks are dropped.
tickAfter(t) == tickAt + period * ((t - tickAt) \div period + 1)

InitPoll ==
    /\ pollPc = "call"
    /\ interval \in {0, 2}
    /\ expiresIn \in {0, 6, 12}
    /\ initial = 0
    /\ elapsed = 0
    /\ tickAt = 0
    /\ period = 0
    /\ slowDowns = 0
    /\ tokenRequests = 0
    /\ lastAnswer = NoErr
    /\ pollReturn = "none"
    /\ returnedAt = 0
    /\ pollTokens \in {NoTokens, [accessToken |-> "A0", refreshToken |-> "R0"]}
    /\ DiffIdle
    /\ BackoffIdle
    /\ RequestIdle
    /\ SyncIdle
    /\ UniqueIdle
    /\ EnsureIdle
    /\ PagesIdle
    /\ TokenIdle
    /\ BearersIdle
    /\ DaemonIdle

\* lines 25-36: defaults, time.NewTicker and time.After
PollStart ==
    /\ pollPc = "call"
    /\ interval' = IF interval <= 0 THEN DefaultInterval ELSE interval
    /\ expiresIn' = IF expiresIn <= 0 THEN DefaultExpiresIn ELSE expiresIn
    /\ initial' = interval'
    /\ period' = interval'
    /\ tickAt' = interval'
    /\ pollPc' = "select"
    /\ UNCHANGED <<elapsed, slowDowns, tokenRequests, lastAnswer, pollReturn, returnedAt,
                   pollTokens, notPollVars>>

\* lines 38-41: case <-timeout
PollTimeout ==
    /\ pollPc = "select"
    /\ timeoutReady <= tickReady
    /\ elapsed' = timeoutReady
    /\ pollReturn' = "TimedOut"
    /\ returnedAt' = elapsed'
    /\ pollPc' = "done"
    /\ UNCHANGED <<interval, expiresIn, initial, tickAt, period, slowDowns, tokenRequests,
                   lastAnswer, pollTokens, notPollVars>>

\* lines 42-43: case <-ticker.C, and the call of requestToken
PollTick ==
    /\ pollPc = "select"
    /\ tickReady <= timeoutReady
    /\ tokenRequests < MaxPolls
    /\ elapsed' = tickReady
    /\ tickAt' = tickAfter(tickReady)
    /\ tokenRequests' = tokenRequests + 1
    /\ pollPc' = "request"
    /\ UNCHANGED <<interval, expiresIn, initial, period, slowDowns, lastAnswer, pollReturn,
                   returnedAt, pollTokens, notPollVars>>

\* lines 43-73: requestToken returns and the loop acts on what it returned
TokenAnswer ==
    /\ pollPc = "request"
    /\ \E r \in TokenAnswers, d \in RequestTimes :
         LET e == attemptError(r, StartTime)
             step == pollStep(e)
         IN /\ lastAnswer' = e
            /\ elapsed' = elapsed + d
            /\ slowDowns' = IF e.kind = "api" /\ e.Code = "slow_down" THEN slowDowns + 1
                             ELSE slowDowns
            /\ interval' = nextInterval(step, interval)
            /\ IF step = "slow_down"
               THEN /\ period' = interval'
                    /\ tickAt' \in {elapsed' + interval'} \cup
                                   (IF tickAt <= elapsed' THEN {tickAt} ELSE {})
               ELSE UNCHANGED <<period, tickAt>>
            /\ IF step \in {"continue", "slow_down"}
               THEN /\ pollPc' = "select"
                    /\ UNCHANGED <<pollReturn, returnedAt, pollTokens>>
               ELSE /\ pollPc' = "done"
                    /\ pollReturn' = step
                    /\ returnedAt' = elapsed'
                    /\ pollTokens' = IF step = "Authorized"
                                      THEN [accessToken |-> "A1", refreshToken |-> "R1"]
                                      ELSE pollTokens
    /\ UNCHANGED <<expiresIn, initial, tokenRequests, notPollVars>>

NextPoll == PollStart \/ PollTimeout \/ PollTick \/ TokenAnswer

SpecPoll == InitPoll /\ [][NextPoll]_vars

(***************************************************************************)
(* SpecToken: RefreshAccessToken calls on one client.  Times are seconds   *)
(* of the Unix epoch.                                                      *)
(***************************************************************************)
\* The token responses of the service.
TokenResponses ==
    [AccessToken : {"A1", "A2"}, RefreshToken : {"R1"}, CreatedAt : {1000, 2000},
     ExpiresIn : {3600, 86400}]

\* An expiry that leaves the lifetime out.
expiryWithoutLifetime(token) == token.CreatedAt

\* line 112: time.Unix(resp.CreatedAt, 0).Add(time.Duration(resp.ExpiresIn) * time.Second)
refreshExpiry(token) ==
    token.CreatedAt
    + DurationMs(MulWord(WordOf(token.ExpiresIn, Bytes64), Second(Bytes64), Bytes64)) \div 1000

InitToken ==
    /\ tkPc = "idle"
    /\ tkClient \in [accessToken : {"", "A0"}, refreshToken : {"", "R0"}]
    /\ onTokenRefresh \in BOOLEAN
    /\ tkCalls = 0
    /\ tkBefore = NoTokens
    /\ tkRequests = 0
    /\ tkCallbacks = <<>>
    /\ tkResp = NoTokenResponse
    /\ tkReturn = nil
    /\ DiffIdle
    /\ BackoffIdle
    /\ RequestIdle
    /\ SyncIdle
    /\ UniqueIdle
    /\ EnsureIdle
    /\ PagesIdle
    /\ PollIdle
    /\ BearersIdle
    /\ DaemonIdle

\* lines 94-96: there is no refresh token
RefreshWithoutToken ==
    /\ tkPc = "idle"
    /\ tkCalls < MaxRefresh
    /\ tkClient.refreshToken = ""
    /\ tkCalls' = tkCalls + 1
    /\ tkBefore' = tkClient
    /\ tkRequests' = 0
    /\ tkCallbacks' = <<>>
    /\ tkResp' = NoTokenResponse
    /\ tkReturn' = "no refresh token available"
    /\ UNCHANGED <<tkPc, tkClient, onTokenRefresh, notTkVars>>

\* lines 98-107: doRequest ended with an error after some attempts
RefreshFails ==
    /\ tkPc = "idle"
    /\ tkCalls < MaxRefresh
    /\ tkClient.refreshToken # ""
    /\ tkCalls' = tkCalls + 1
    /\ tkBefore' = tkClient
    /\ tkRequests' \in 1..maxRetries
    /\ tkCallbacks' = <<>>
    /\ tkResp' = NoTokenResponse
    /\ tkReturn' = "failed to refresh token"
    /\ UNCHANGED <<tkPc, tkClient, onTokenRefresh, notTkVars>>

\* lines 98-118: doRequest returned the token response
RefreshSucceeds ==
    /\ tkPc = "idle"
    /\ tkCalls < MaxRefresh
    /\ tkClient.refreshToken # ""
    /\ tkCalls' = tkCalls + 1
    /\ tkBefore' = tkClient
    /\ tkRequests' \in 1..maxRetries
    /\ \E token \in TokenResponses :
         /\ tkResp' = token
         /\ tkClient' = [accessToken |-> token.AccessToken, refreshToken |-> token.RefreshToken]
         /\ tkCallbacks' = IF onTokenRefresh
                            THEN <<[accessToken |-> token.AccessToken,
                                    refreshToken |-> token.RefreshToken,
                                    expiresAt |-> refreshExpiry(token)]>>
                            ELSE <<>>
    /\ tkReturn' = nil
    /\ UNCHANGED <<tkPc, onTokenRefresh, notTkVars>>

NextToken == RefreshWithoutToken \/ RefreshFails \/ RefreshSucceeds

SpecToken == InitToken /\ [][NextToken]_vars

(***************************************************************************)
(* SpecDaemon: runDaemon.  A pass is one runSync call, taken by the error  *)
(* it returns; the ticker holds at most one undelivered tick.              *)
(***************************************************************************)
\* The errors runSync returns: none (also when only some lists failed), a
\* failed precondition, all lists failed.
PassErrors == {nil, "config validation failed", "failed to refresh token", ErrAllFailed}

\* A loop that ends at the first pass that returns an error.
stopAfterError(e) == IF e = nil THEN "waiting" ELSE "exited"

\* lines 342-350: the error of a pass is logged and the loop goes on.
afterPass(e) == "waiting"

InitDaemon ==
    /\ dmPc = "start"
    /\ dmAuth \in BOOLEAN
    /\ dmDryRun \in BOOLEAN
    /\ passes = 0
    /\ running = 0
    /\ tickPending = FALSE
    /\ passErrs = <<>>
    /\ DiffIdle
    /\ BackoffIdle
    /\ RequestIdle
    /\ SyncIdle
    /\ UniqueIdle
    /\ EnsureIdle
    /\ PagesIdle
    /\ PollIdle
    /\ TokenIdle
    /\ BearersIdle

\* lines 333-342: the check, time.NewTicker and the call of the first pass
DaemonStart ==
    /\ dmPc = "start"
    /\ IF ~dmDryRun /\ ~dmAuth
       THEN /\ dmPc' = "exited"
            /\ UNCHANGED <<passes, running>>
       ELSE /\ dmPc' = "pass"
            /\ passes' = passes + 1
            /\ running' = running + 1
    /\ UNCHANGED <<dmAuth, dmDryRun, tickPending, passErrs, notDmVars>>

\* The ticker sends a tick; a tick that finds ticker.C full is dropped.
Tick ==
    /\ dmPc \in {"pass", "waiting"}
    /\ ~tickPending
    /\ tickPending' = TRUE
    /\ UNCHANGED <<dmPc, dmAuth, dmDryRun, passes, running, passErrs, notDmVars>>

\* lines 342-344 and 347-349: runSync returns
PassReturns ==
    /\ dmPc = "pass"
    /\ \E e \in PassErrors :
         /\ passErrs' = Append(passErrs, e)
         /\ dmPc' = afterPass(e)
    /\ running' = running - 1
    /\ UNCHANGED <<dmAuth, dmDryRun, passes, tickPending, notDmVars>>

\* lines 346-347: for range ticker.C receives a tick and calls runSync
NextPass ==
    /\ dmPc = "waiting"
    /\ tickPending
    /\ passes < MaxPasses
    /\ tickPending' = FALSE
    /\ passes' = passes + 1
    /\ running' = running + 1
    /\ dmPc' = "pass"
    /\ UNCHANGED <<dmAuth, dmDryRun, passErrs, notDmVars>>

NextDaemon == DaemonStart \/ Tick \/ PassReturns \/ NextPass

SpecDaemon == InitDaemon /\ [][NextDaemon]_vars

\* The ticker keeps ticking, runSync returns, and the loop takes a tick
\* that is there.
SpecDaemonLive ==
    SpecDaemon /\ WF_vars(Tick) /\ WF_vars(PassReturns) /\ WF_vars(NextPass)

(***************************************************************************)
(* SpecRefresh: shouldFullRefresh on a Syncer built from a configuration   *)
(* alone, as the tests build it                                            *)
(***************************************************************************)
\* When a kind was last refreshed: never, or 8, 7, 5 days or 1 day ago.
LastRefreshChoices ==
    {ZeroTime, SyncStartTime - 8 * Day, SyncStartTime - 7 * Day, SyncStartTime - 5 * Day,
     SyncStartTime - Day}

\* &config.Config{Sync: config.SyncConfig{FullRefreshDays: ..., LastFullRefresh: ...}}
RefreshConfig(days, movies, shows) ==
    [Trakt |-> [ClientID |-> "", ClientSecret |-> "", Username |-> "", AccessToken |-> "",
                RefreshToken |-> "", TokenExpires |-> ZeroTime],
     Sync |-> [Limit |-> 0, ListPrivacy |-> "", FullRefreshDays |-> days,
               LastFullRefresh |-> [Movies |-> movies, Shows |-> shows],
               Lists |-> [Movies |-> FALSE, Shows |-> FALSE]]]

InitRefresh ==
    /\ syncPc = "decide"
    /\ \E days \in RefreshDays \cup {0, -1}, movies \in LastRefreshChoices,
          shows \in LastRefreshChoices : cfg = RefreshConfig(days, movies, shows)
    /\ lists = GetListDefinitions(cfg)
    /\ listIdx \in DOMAIN lists
    /\ disk = cfg
    /\ dryRun = FALSE
    /\ listsFilter = <<>>
    /\ accessToken = ""
    /\ refreshToken = ""
    /\ configDirty = FALSE
    /\ result = ZeroResult
    /\ syncErr = nil
    /\ exitCode = NoExit
    /\ syncCalls = NoLists
    /\ listErr = NoListErrs
    /\ fetched = <<>>
    /\ fetchErrs = NoFetchErrs
    /\ newItems = <<>>
    /\ currentItems = <<>>
    /\ fullRefresh = FALSE
    /\ pending = NoPlan
    /\ sent = <<>>
    /\ serverItems = <<>>
    /\ ClientIdle
    /\ now = SyncStartTime
    /\ DiffIdle
    /\ BackoffIdle
    /\ UniqueIdle
    /\ EnsureIdle
    /\ PagesIdle
    /\ PollIdle
    /\ TokenIdle
    /\ BearersIdle
    /\ DaemonIdle

\* s.shouldFullRefresh(listDef.IsMovie)
DecideRefresh ==
    /\ syncPc = "decide"
    /\ fullRefresh' = shouldFullRefresh(cfg, lists[listIdx].IsMovie, now)
    /\ syncPc' = "decided"
    /\ UNCHANGED <<cfg, disk, flagVars, tokenVars, configDirty, syncErr, exitCode, tallyVars,
                   fetched, fetchErrs, newItems, currentItems, pending, sent, serverItems, now,
                   notSyncVars>>
    /\ UNCHANGED bearers

NextRefresh == DecideRefresh

SpecRefresh == InitRefresh /\ [][NextRefresh]_vars

(***************************************************************************)
(* Claims on calculateDiff                                                 *)
(***************************************************************************)
AllIdentified(cur) == \A i \in DOMAIN cur : hasIdentity(cur[i])

DuplicateFree(ids) == \A i, j \in DOMAIN ids : ids[i].Trakt = ids[j].Trakt => i = j

CurrentIDs == {itemID(current[i]) : i \in {j \in DOMAIN current : hasIdentity(current[j])}}

TargetIDs == Range(extractIDs(target))

\* C1: for a current list whose items each populate exactly one of movie and
\* show, and a duplicate-free target, the service IDs of toAdd are exactly
\* target \ current and those of toRemove exactly current \ target; no ID of
\* toAdd occurs in current and no ID of toRemove occurs in target.
C1_DiffIsSetDifference ==
    (diffPc # "input" /\ AllIdentified(current) /\ DuplicateFree(target)) =>
        /\ Range(extractIDs(toAdd)) = TargetIDs \ CurrentIDs
        /\ Range(extractIDs(toRemove)) = CurrentIDs \ TargetIDs
        /\ Range(extractIDs(toAdd)) \cap CurrentIDs = {}
        /\ Range(extractIDs(toRemove)) \cap TargetIDs = {}

\* A diff with something to add, something to remove and something to keep.
C1_Witness ==
    /\ diffPc = "diffed"
    /\ AllIdentified(current)
    /\ DuplicateFree(target)
    /\ toAdd # <<>>
    /\ toRemove # <<>>
    /\ CurrentIDs \cap TargetIDs # {}

\* C2: after the list was updated by removing toRemove and adding toAdd, a
\* second calculateDiff against the same target returns an empty toAdd and
\* an empty toRemove, for every current list and every target.
C2_ReDiffIsEmpty ==
    diffPc = "rediffed" => (toAdd2 = <<>> /\ toRemove2 = <<>>)

\* C29: a current item that populates neither movie nor show contributes
\* nothing to the diff: every identity in toRemove is that of a current item
\* with a populated movie or show, and toRemove holds no zero-valued
\* identity.
C29_UnidentifiedItemsIgnored ==
    diffPc # "input" =>
        \A i \in DOMAIN toRemove :
            /\ \E j \in DOMAIN current :
                  \/ current[j].Movie # <<>> /\ toRemove[i] = current[j].Movie[1]
                  \/ current[j].Show # <<>> /\ toRemove[i] = current[j].Show[1]
            /\ toRemove[i] # ZeroMediaIDs

(***************************************************************************)
(* Claims on the request executor                                          *)
(***************************************************************************)
\* What the retry policy calls retryable: a network-level error, an HTTP
\* 429, an HTTP status from 500 on.
RetryableFailure(e) ==
    \/ e.kind = "request failed"
    \/ e.kind = "failed to read response body" /\ e.isNet
    \/ e.kind = "api" /\ (e.Status = 429 \/ e.Status >= 500)

\* C7: one doRequest call makes at most 3 attempts; after a failed attempt
\* the loop goes on only if the failure was a network-level error, an HTTP
\* 429 or an HTTP status >= 500; after a success or any other 4xx error
\* response it has returned, with no further attempt.
C7_RetryPolicy ==
    /\ attemptsMade <= 3
    /\ (reqPc = "loop" /\ attemptsMade > 0) => RetryableFailure(attemptErr)
    /\ (attemptsMade > 0 /\ attemptErr = NoErr) => reqPc = "returned"
    /\ (attemptErr.kind = "api" /\ attemptErr.Status \in 400..499 /\ attemptErr.Status # 429)
          => reqPc = "returned"

\* A call that used all three attempts.
C7_Witness ==
    /\ reqPc = "returned"
    /\ attemptsMade = 3
    /\ RetryableFailure(attemptErr)

\* C9: waitForRateLimit sleeps if and only if rateLimitRemaining is 0 and
\* rateLimitReset is set and strictly after now, and then for exactly the
\* time until rateLimitReset; it never sleeps a negative time nor past the
\* reset time.
C9_RateLimitWait ==
    attemptsMade > 0 =>
        LET due == waitSeen.remaining = 0 /\ waitSeen.reset # ZeroTime /\ waitSeen.at < waitSeen.reset
        IN /\ (waitSlept # 0) <=> due
           /\ due => waitSlept = waitSeen.reset - waitSeen.at
           /\ waitSlept >= 0

\* An attempt that waited for the reset time.
C9_Witness ==
    /\ attemptsMade > 0
    /\ waitSeen.remaining = 0
    /\ waitSlept > 0
    /\ now >= waitSeen.reset

\* C10: when every attempt of a call failed with a retryable error, the
\* call returns the error of its last attempt; for an HTTP error that is an
\* APIError with the status of the last response and the error code and
\* description its body carried.
C10_LastErrorReturned ==
    (reqPc = "returned" /\ attemptsMade = 3 /\ RetryableFailure(attemptErr)) =>
        /\ err = attemptErr
        /\ err.kind = "api" =>
              /\ err.Status = resp
              /\ respBody.Error # "" =>
                    (err.Code = respBody.Error /\ err.Description = respBody.ErrorDescription)

\* Three failed attempts, the last one an HTTP error with a code.
C10_Witness ==
    /\ reqPc = "returned"
    /\ attemptsMade = 3
    /\ err.kind = "api"
    /\ err.Code = "E1"
    /\ resp = 429

\* The retry-after value a failed attempt carried: APIError.RetryAfter for
\* an error response, nothing for a network error.
HintOf(e) == IF e.kind = "api" THEN e.RetryAfter ELSE 0

\* C30: with the attempts of a doRequest call numbered from 1, the executor
\* sleeps, before attempt k >= 2, the larger of backoffDuration(k-1) and the
\* retry-after value of the failure of attempt k-1 (0 for a network error
\* or an error without a hint), whatever the attempts before k-1 carried.
C30_RetryDelay ==
    [][(reqPc = "loop" /\ attemptsMade >= 1 /\ attemptsMade' = attemptsMade + 1) =>
          LET k == attemptsMade + 1
              hint == HintOf(attemptErr)
          IN backoffSlept' = IF hint > backoffMs[k - 1] THEN hint ELSE backoffMs[k - 1]]_vars

\* A third attempt that slept longer than its backoff, on the hint of the
\* second attempt's failure.
C30_Witness ==
    /\ attemptsMade = 3
    /\ backoffSlept > backoffMs[2]

\* The instant the service declared with an X-Ratelimit-Reset value read at
\* time t: the epoch second itself, or that many seconds from t.
DeclaredReset(value, t) ==
    IF value.val \in ResetEpochs THEN value.val * 1000 ELSE t + value.val * 1000

\* C31: after a response whose reset header is a number, a delay or an
\* epoch second not before now, the rateLimitReset the client stores is
\* never later than the instant the service declared; this includes an
\* epoch second within the next 60 seconds.
C31_ResetNotAfterDeclared ==
    (/\ respHeader.reset.kind = "int"
     /\ respHeader.reset.val \in ResetEpochs => respHeader.reset.val * 1000 >= now)
        => rateLimitReset <= DeclaredReset(respHeader.reset, now)

\* C32: an attempt changes rateLimitRemaining only to the value of a
\* parsable remaining header of its response and rateLimitReset only to the
\* time a parsable reset header gives; a field whose header is missing or
\* unparsable keeps its value, and so do both after a response with
\* neither header and after an attempt without a response.
C32_FieldByFieldUpdate ==
    [][attemptsMade' = attemptsMade + 1 =>
          /\ rateLimitRemaining' = IF respHeader'.remaining.kind = "int"
                                   THEN respHeader'.remaining.val
                                   ELSE rateLimitRemaining
          /\ respHeader'.reset.kind # "int" => rateLimitReset' = rateLimitReset
          /\ respHeader'.reset.kind = "int" =>
                rateLimitReset' \in {respHeader'.reset.val * 1000, now' + respHeader'.reset.val * 1000}
          /\ resp' = 0 => (rateLimitRemaining' = rateLimitRemaining /\ rateLimitReset' = rateLimitReset)]_vars

\* A response with an unparsable remaining header and a reset header that
\* parses, after one that reported one remaining call and no reset time.
C32_Witness ==
    /\ attemptsMade >= 2
    /\ respHeader.remaining = TextH
    /\ respHeader.reset = IntH(2)
    /\ rateLimitRemaining = 1
    /\ rateLimitReset = now + 2000

SentOps(op) == {i \in DOMAIN sent : sent[i].op = op}

\* C3: in a list sync that needs both requests, in incremental and in
\* full-refresh mode alike, the remove request is issued and has returned
\* before the add request is sent; when the remove request returned an
\* error, no add request is sent for that list in that run.
C3_RemoveBeforeAdd ==
    /\ \A i \in SentOps("add"), j \in SentOps("remove") : j < i
    /\ Len(pending.toRemove) > 0 => SentOps("add") = {}
    /\ \A j \in SentOps("remove") : sent[j].failed => SentOps("add") = {}

\* An incremental sync that removed one item and then added another.
C3_Witness ==
    /\ ~fullRefresh
    /\ Len(sent) = 2
    /\ sent[1].op = "remove"
    /\ ~sent[1].failed
    /\ sent[2].op = "add"

\* The list flags SyncAll reads from the configuration, by list index.
EnabledInConfig == {i \in 1..2 : IF i = 1 THEN cfg.Sync.Lists.Movies ELSE cfg.Sync.Lists.Shows}

\* SyncAll was called and has returned.
SyncAllReturned == syncPc \in {"returned", "exited"} /\ lists # <<>>

\* C4: SyncAll calls SyncList exactly once for every enabled list and never
\* for a disabled one, whether or not an earlier list failed; when it
\* returns, Total is the number of enabled lists and Successful + Failed =
\* Total.
C4_EveryEnabledListOnce ==
    /\ \A i \in 1..2 : syncCalls[i] <= 1
    /\ \A i \in (1..2) \ EnabledInConfig : syncCalls[i] = 0
    /\ SyncAllReturned =>
          /\ \A i \in EnabledInConfig : syncCalls[i] = 1
          /\ result.Total = Cardinality(EnabledInConfig)
          /\ result.Successful + result.Failed = result.Total

\* SyncAll returned after the first list failed and the second was synced.
C4_Witness ==
    /\ SyncAllReturned
    /\ listErr[1] # nil
    /\ syncCalls[2] = 1
    /\ result.Successful = 1

Attempted == {i \in 1..2 : syncCalls[i] > 0}

Succeeded == {i \in Attempted : listErr[i] = nil}

\* C5: SyncAll returns ErrAllFailed exactly when at least one list was
\* attempted and none succeeded; the exit code is then 0 when no list is
\* enabled, 0 when every enabled list succeeded, 1 when some failed and at
\* least one succeeded, and 2 when every attempted list failed.
C5_AllFailedAndExitCodes ==
    /\ SyncAllReturned =>
          /\ syncErr = ErrAllFailed <=> (Attempted # {} /\ Succeeded = {})
          /\ syncErr \in {nil, ErrAllFailed}
    /\ (SyncAllReturned /\ syncPc = "exited") =>
          exitCode = CASE EnabledInConfig = {} -> 0
                       [] EnabledInConfig # {} /\ Succeeded = EnabledInConfig -> 0
                       [] Succeeded # {} /\ Succeeded # EnabledInConfig -> 1
                       [] OTHER -> 2

\* One list failed, the other succeeded, and the command exits with 1.
C5_Witness ==
    /\ SyncAllReturned
    /\ syncPc = "exited"
    /\ Cardinality(Attempted) = 2
    /\ Cardinality(Succeeded) = 1
    /\ exitCode = 1

\* runSync returned before it synced anything: the configuration is invalid,
\* the tokens are missing, or the token refresh failed.
PreconditionFailed ==
    syncErr \in {"config validation failed", "not authenticated", "failed to refresh token"}

\* C6: a failure of a precondition is reported with an exit code of its own,
\* 3, distinct from the 2 reported when every attempted list failed.
C6_PreconditionExitCode ==
    (syncPc = "exited" /\ PreconditionFailed) => (exitCode = 3 /\ exitCode # 2)

\* Sync.LastFullRefresh of one kind, in a configuration.
StampOf(c, movie) ==
    IF movie THEN c.Sync.LastFullRefresh.Movies ELSE c.Sync.LastFullRefresh.Shows

\* C12: when SyncList runs in full-refresh mode and its remove and add steps
\* have succeeded or were skipped, the last-full-refresh time of the kind of
\* that list is set to the current time and configDirty becomes true; the
\* stamp is written only after the remove and add steps, never before.
C12_StampAfterFullRefresh ==
    [][/\ \A movie \in BOOLEAN :
             StampOf(cfg', movie) # StampOf(cfg, movie) =>
                 /\ fullRefresh
                 /\ lists[listIdx].IsMovie = movie
                 /\ pending'.toRemove = <<>>
                 /\ pending'.toAdd = <<>>
                 /\ \A i \in DOMAIN sent' : ~sent'[i].failed
                 /\ StampOf(cfg', movie) = now'
                 /\ configDirty'
       /\ (fullRefresh /\ result'.Successful = result.Successful + 1) =>
             /\ StampOf(cfg', lists[listIdx].IsMovie) = now'
             /\ configDirty'
             /\ \A i \in DOMAIN sent' : ~sent'[i].failed
      ]_vars

\* A full refresh of the movie list that removed, added and was stamped.
C12_Witness ==
    /\ fullRefresh
    /\ Len(sent) = 2
    /\ listIdx = 2
    /\ result.Successful = 1
    /\ cfg.Sync.LastFullRefresh.Movies = now
    /\ configDirty

\* The add requests among the requests of the list sync at hand.
AddRequests == {sent[i].req : i \in SentOps("add")}

NoRepeatedID(ids) == \A i, j \in DOMAIN ids : ids[i].Trakt = ids[j].Trakt => i = j

\* C14: every add request SyncList submits, in incremental and in
\* full-refresh mode, names no service ID twice, whatever the rankings
\* returned, also when they overlap or repeat an item.
C14_AddRequestDuplicateFree ==
    \A req \in AddRequests : NoRepeatedID(req.Movies) /\ NoRepeatedID(req.Shows)

\* A full refresh whose rankings repeat an item and overlap, with its add
\* request submitted.
C14_Witness ==
    /\ fullRefresh
    /\ AddRequests # {}
    /\ Len(fetched[1]) = 2
    /\ Len(fetched[2]) >= 1

(***************************************************************************)
(* Claims on uniqueIDs (SpecUnique)                                        *)
(***************************************************************************)
\* The positions at which a service ID occurs for the first time.
FirstOccurrences(items) ==
    {i \in DOMAIN items : \A j \in 1..(i - 1) : items[j].Trakt # items[i].Trakt}

\* The k-th smallest element of a set of positions.
Nth(S, k) == CHOOSE i \in S : Cardinality({j \in S : j < i}) = k - 1

\* C13: uniqueIDs returns a sequence with no two entries of equal service
\* ID, holding exactly the service IDs of the input in the order of their
\* first occurrence, each with the entry of that first occurrence; applied
\* to its own output it changes nothing.
C13_UniqueIDs ==
    /\ uqPc \in {"once", "twice"} =>
          /\ \A i, j \in DOMAIN uqUnique : uqUnique[i].Trakt = uqUnique[j].Trakt => i = j
          /\ Range(extractIDs(uqUnique)) = Range(extractIDs(uqItems))
          /\ Len(uqUnique) = Cardinality(FirstOccurrences(uqItems))
          /\ \A k \in DOMAIN uqUnique : uqUnique[k] = uqItems[Nth(FirstOccurrences(uqItems), k)]
    /\ uqPc = "twice" => uqAgain = uqUnique

\* An input that repeats an ID under another slug, between two other IDs.
C13_Witness ==
    /\ uqPc = "twice"
    /\ Len(uqItems) = 3
    /\ uqItems[1].Trakt = uqItems[3].Trakt
    /\ uqItems[1].Slug # uqItems[3].Slug
    /\ Len(uqUnique) = 2

\* The requests of the run other than the token refresh itself.
ListRequests == {b \in bearers : b.op # "refresh"}

\* C23: after a successful token refresh every later request of the client
\* carries the new access token as bearer token and none the old one; in
\* runSync, when the stored token expires within the hour, no list or fetch
\* request is sent before the refresh, and every request of the pass
\* carries the refreshed token.
C23_RequestsCarryRefreshedToken ==
    /\ \A b \in ListRequests : b.auth = [scheme |-> "Bearer", token |-> accessToken]
    /\ cfg # <<>> /\ cfg.Trakt.AccessToken = "access2" =>
          \A b \in ListRequests : b.auth.token = "access2" /\ b.auth.token # "access1"
    /\ cfg # <<>> /\ cfg.Trakt.AccessToken # "access2" /\ NeedsRefresh(cfg, SyncStartTime) =>
          ListRequests = {}

\* A run refreshed the token and later sent an add request.
C23_Witness ==
    /\ [op |-> "refresh", auth |-> [scheme |-> "Bearer", token |-> "access1"]] \in bearers
    /\ [op |-> "add", auth |-> [scheme |-> "Bearer", token |-> "access2"]] \in bearers

\* C25: a config.Save that fails does not fail the sync: whether or not the
\* save after SyncAll succeeds, runSync returns SyncAll's result and error;
\* whether or not the save in the token-refresh callback succeeds, the
\* refresh counts as successful and the run goes on.
C25_SaveFailureIgnored ==
    /\ [][(syncPc = "loop" /\ syncPc' = "returned") =>
            /\ result' = result
            /\ syncErr' = syncAllError(result)]_vars
    /\ [][(syncPc = "refresh" /\ accessToken' # accessToken) =>
            /\ syncPc' = "filter"
            /\ syncErr' = nil]_vars

\* A run whose two saves both failed returned a successful list and no error.
C25_Witness ==
    /\ syncPc = "returned"
    /\ cfg.Trakt.AccessToken = "access2"
    /\ disk.Trakt.AccessToken = "access1"
    /\ configDirty
    /\ disk.Sync.LastFullRefresh = [Movies |-> ZeroTime, Shows |-> ZeroTime]
    /\ result.Successful >= 1
    /\ syncErr = nil

\* The service IDs a request names, and those of the current list's items
\* and of the fetched target set.
RequestIDs(req) ==
    {req.Movies[i].Trakt : i \in DOMAIN req.Movies} \cup {req.Shows[i].Trakt : i \in DOMAIN req.Shows}

ListIDs ==
    {itemID(currentItems[i]) : i \in {j \in DOMAIN currentItems : hasIdentity(currentItems[j])}}

FetchedIDs == {newItems[i].Trakt : i \in DOMAIN newItems}

CurrentMovies == {currentItems[i].Movie[1] : i \in {j \in DOMAIN currentItems : currentItems[j].Movie # <<>>}}
CurrentShows == {currentItems[i].Show[1] : i \in {j \in DOMAIN currentItems : currentItems[j].Show # <<>>}}

\* C28: requests are partitioned by the kind of the item: every identity in
\* the movies array of a remove request is that of a movie among the
\* current items and every identity in its shows array that of a show,
\* whatever the kind of the managed list; an add request, whose identities
\* come from the rankings of one kind, fills one of the two arrays only.
C28_PartitionedByKind ==
    /\ \A i \in SentOps("remove") :
          /\ Range(sent[i].req.Movies) \subseteq CurrentMovies
          /\ Range(sent[i].req.Shows) \subseteq CurrentShows
    /\ \A i \in SentOps("add") : sent[i].req.Movies = <<>> \/ sent[i].req.Shows = <<>>

\* The errors SyncList returns when one of its reads failed.
ReadFailures ==
    {"failed to ensure list exists", "failed to fetch items", "failed to get current list items"}

\* C34: when EnsureListExists, one of the two ranking queries or
\* GetListItems fails, SyncList returns an error and has sent neither an
\* add nor a remove request for the list; the target set is built only
\* when both ranking queries succeeded, and then from both.
C34_AbortOnReadFailure ==
    /\ [][(syncPc = "fetch" /\ syncPc' # "fetch" /\ fetchErrs' # NoFetchErrs) =>
              /\ syncPc' = "loop"
              /\ listErr'[listIdx] = "failed to fetch items"
              /\ result'.Failed = result.Failed + 1]_vars
    /\ [][(listErr' # listErr /\ listErr'[listIdx] \in ReadFailures) => sent' = <<>>]_vars
    /\ [](syncPc \in {"ensure", "fetch", "items"} => sent = <<>>)
    /\ [](syncPc \in {"items", "remove", "add"} =>
              /\ fetchErrs = NoFetchErrs
              /\ newItems = uniqueIDs(fetched[1] \o fetched[2]))

\* The streaming query failed after the trending query: the list failed
\* and the run is over without a request.
C34_Witness ==
    /\ syncPc = "returned"
    /\ fetchErrs = <<nil, "request failed">>
    /\ \E i \in 1..2 : listErr[i] = "failed to fetch items"
    /\ sent = <<>>

\* The service IDs of the items of a list.
IDsOf(items) == {itemID(items[i]) : i \in {j \in DOMAIN items : hasIdentity(items[j])}}

\* Every item of the list is of the kind the list is managed for.
AllOfKind(items, movie) ==
    \A i \in DOMAIN items : IF movie THEN items[i].Movie # <<>> ELSE items[i].Show # <<>>

\* The step in which SyncList returns nil.
SyncListReturnsNil == syncPc = "add" /\ result'.Successful = result.Successful + 1

SyncListReturns ==
    syncPc \in {"ensure", "fetch", "items", "remove", "add"} /\ syncPc' = "loop"

\* C37: a SyncList run in incremental mode, and any run that returns an
\* error, leaves both lastFullRefresh timestamps and configDirty as they
\* were, so that after a failed full refresh shouldFullRefresh still holds
\* for the list; a completed full refresh leaves the timestamp of the
\* other kind as it was.
C37_RefreshStateFrame ==
    /\ [][(SyncListReturns /\ (~fullRefresh \/ result'.Failed = result.Failed + 1)) =>
              /\ cfg'.Sync.LastFullRefresh = cfg.Sync.LastFullRefresh
              /\ configDirty' = configDirty]_vars
    /\ [][(SyncListReturns /\ fullRefresh /\ result'.Failed = result.Failed + 1) =>
              shouldFullRefresh(cfg', lists[listIdx].IsMovie, now')]_vars
    /\ [][(SyncListReturns /\ fullRefresh /\ result'.Successful = result.Successful + 1) =>
              IF lists[listIdx].IsMovie
              THEN cfg'.Sync.LastFullRefresh.Shows = cfg.Sync.LastFullRefresh.Shows
              ELSE cfg'.Sync.LastFullRefresh.Movies = cfg.Sync.LastFullRefresh.Movies]_vars
    /\ [][~SyncListReturns => (cfg'.Sync.LastFullRefresh = cfg.Sync.LastFullRefresh
                               /\ configDirty' = configDirty)]_vars

\* A full refresh whose remove request succeeded and whose add request
\* failed, in a run that stamped nothing.
C37_Witness ==
    /\ syncPc = "returned"
    /\ fullRefresh
    /\ Len(sent) = 2
    /\ ~sent[1].failed
    /\ sent[2].failed
    /\ ~configDirty
    /\ cfg.Sync.LastFullRefresh = disk.Sync.LastFullRefresh

\* C38: a --lists filter restricts the lists of the run only: no step of a
\* sync run, the save after a full refresh included, changes the enable
\* flags of movies and shows in the configuration file.
C38_FilterNotPersisted ==
    [][disk'.Sync.Lists = disk.Sync.Lists]_vars

(***************************************************************************)
(* Claims on EnsureListExists (SpecEnsure)                                 *)
(***************************************************************************)
\* An EnsureListExists call has returned.
EnsureReturned == ensPc = "idle" /\ ensCalls > 0

\* C15: EnsureListExists issues a create request if and only if the get
\* ended with HTTP 404; after a get that succeeded it issues none and
\* returns no error; after a get that failed otherwise it returns that
\* error and issues none; a create request for an empty privacy carries
\* the privacy "private".
C15_CreateOnlyAfter404 ==
    /\ ensPc = "create" => ensGet.resp = 404
    /\ ensPosts # <<>> => ensGet.resp = 404
    /\ (EnsureReturned /\ ensGet.resp = 404) => ensPosts # <<>>
    /\ (EnsureReturned /\ ensGet.err = NoErr) => (ensPosts = <<>> /\ ensReturn = NoErr)
    /\ (EnsureReturned /\ ensGet.err # NoErr /\ ensGet.resp # 404) =>
          (ensPosts = <<>> /\ ensReturn = ensGet.err)
    /\ \A i \in DOMAIN ensPosts :
          ensPosts[i] = IF ensPrivacy = "" THEN "private" ELSE ensPrivacy

\* A call with an empty privacy that got a 404 and created the list.
C15_Witness ==
    /\ EnsureReturned
    /\ ensPrivacy = ""
    /\ ensGet.resp = 404
    /\ ensReturn = NoErr
    /\ remoteLists = <<"private">>

\* C16: over any sequence of EnsureListExists calls for one slug, also when
\* the request executor retries a create attempt after a 5xx or a network
\* error, the service never holds more than one list created for the slug;
\* and a call that finds the list already present (its get is answered with
\* the list) returns no error.
C16_EnsureIdempotent ==
    /\ Len(remoteLists) <= 1
    /\ (EnsureReturned /\ ensPresent /\ ensGet.err = NoErr) => ensReturn = NoErr

(***************************************************************************)
(* Claims on GetListItems (SpecPages)                                      *)
(***************************************************************************)
RECURSIVE Concat(_)
\* The items of all pages, in page order.
Concat(pages) == IF pages = <<>> THEN <<>> ELSE Head(pages) \o Concat(Tail(pages))

\* C17: GetListItems returns either an error together with no items, or
\* without error the concatenation in page order of every page 1..N of the
\* list; it never returns without error only a strict prefix of the pages.
C17_AllPagesOrError ==
    pgPc = "done" =>
        \/ pgReturn.err # NoErr /\ pgReturn.items = <<>>
        \/ pgReturn.err = NoErr /\ pgReturn.items = Concat(listPages)

(***************************************************************************)
(* Claims on PollForToken (SpecPoll)                                       *)
(***************************************************************************)
\* requestToken's error e carries the error code c of the service.
Answered(e, c) == e.kind = "api" /\ e.Code = c

\* The step in which requestToken returns.
Answering == pollPc = "request" /\ pollPc' # "request"

C19_DeniedAndExpiredTerminal ==
    /\ [](Answered(lastAnswer, "access_denied") => pollPc = "done" /\ pollReturn = "Denied")
    /\ [](Answered(lastAnswer, "expired_token") => pollPc = "done" /\ pollReturn = "Expired")
    /\ [][pollPc = "done" => UNCHANGED <<tokenRequests, pollReturn, pollTokens>>]_vars
    /\ [][pollReturn' \in {"Denied", "Expired"} => pollTokens' = pollTokens]_vars

\* A client that held tokens was denied after an earlier pending answer.
C19_Witness ==
    /\ pollPc = "done"
    /\ pollReturn = "Denied"
    /\ tokenRequests > 1
    /\ pollTokens.accessToken = "A0"

\* C20: a PollForToken that ends after the expiry window has elapsed ends
\* in TimedOut, whatever the service answered: it returns no token and
\* reports neither denial nor expiry after the window.
C20_TimedOutAfterWindow ==
    (pollPc = "done" /\ returnedAt > expiresIn) => pollReturn = "TimedOut"

\* C21: every PollForToken run ends in one of Authorized, Denied, Expired
\* and TimedOut, whatever requestToken returned (5xx, 429, 404 and network
\* errors included); Authorized is reached only when the token exchange
\* succeeded, and then the client holds the new access and refresh tokens.
C21_FourTerminalOutcomes ==
    pollPc = "done" =>
        /\ pollReturn \in {"Authorized", "Denied", "Expired", "TimedOut"}
        /\ pollReturn = "Authorized" =>
              /\ lastAnswer = NoErr
              /\ pollTokens = [accessToken |-> "A1", refreshToken |-> "R1"]

\* The error codes PollForToken knows.
RecognizedCodes == {"authorization_pending", "slow_down", "access_denied", "expired_token"}

\* C33: a 4xx answer to the token request without a recognized error code
\* (no code, or another code; status 400 or another 4xx) counts as still
\* pending: PollForToken goes on polling with the interval and the ticker
\* unchanged.
C33_UnrecognizedIsPending ==
    [][(/\ Answering
        /\ lastAnswer'.kind = "api"
        /\ lastAnswer'.Status \in 400..499
        /\ lastAnswer'.Code \notin RecognizedCodes)
           => /\ pollPc' = "select"
              /\ interval' = interval
              /\ UNCHANGED <<period, tickAt>>]_vars

\* C35: the token polls of one PollForToken call are bounded by the expiry
\* window divided by the initial interval (each after its default), for
\* every sequence of answers of the service.
C35_PollsBounded ==
    pollPc \in {"select", "request", "done"} => tokenRequests <= expiresIn \div initial

(***************************************************************************)
(* Claims on RefreshAccessToken (SpecToken)                                *)
(***************************************************************************)
\* C22: RefreshAccessToken on a client without refresh token returns the
\* error "no refresh token available" and issues no request; when the
\* exchange succeeds, the client holds the access and the refresh token of
\* the response and the registered callback was invoked exactly once, with
\* these tokens and the expiry created_at + expires_in; when the exchange
\* fails, the client's tokens are unchanged and the callback is not invoked.
C22_TokenRefresh ==
    tkCalls > 0 =>
        /\ tkBefore.refreshToken = "" =>
              /\ tkReturn = "no refresh token available"
              /\ tkRequests = 0
              /\ tkClient = tkBefore
              /\ tkCallbacks = <<>>
        /\ (tkBefore.refreshToken # "" /\ tkReturn = nil) =>
              /\ tkClient = [accessToken |-> tkResp.AccessToken,
                             refreshToken |-> tkResp.RefreshToken]
              /\ onTokenRefresh =>
                    tkCallbacks = <<[accessToken |-> tkResp.AccessToken,
                                     refreshToken |-> tkResp.RefreshToken,
                                     expiresAt |-> tkResp.CreatedAt + tkResp.ExpiresIn]>>
        /\ (tkBefore.refreshToken # "" /\ tkReturn # nil) =>
              /\ tkReturn = "failed to refresh token"
              /\ tkClient = tkBefore
              /\ tkCallbacks = <<>>

\* A second refresh on a client with a callback replaced the tokens the
\* first one had stored.
C22_Witness ==
    /\ tkCalls = 2
    /\ onTokenRefresh
    /\ tkReturn = nil
    /\ tkBefore.accessToken = "A1"
    /\ tkClient.accessToken = "A2"
    /\ Len(tkCallbacks) = 1

(***************************************************************************)
(* Claims on runDaemon (SpecDaemonLive)                                    *)
(***************************************************************************)
\* C24: runDaemon starts a pass only when no pass is in progress, so at
\* most one pass runs at any time; and after a pass that returned an error
\* the loop goes on: a later tick starts the next pass.
C24_DaemonPasses ==
    /\ [](running <= 1)
    /\ [][passes' # passes => running = 0 /\ passes' = passes + 1]_vars
    /\ \A n \in 1..(MaxPasses - 1) :
          (Len(passErrs) = n /\ passErrs[n] # nil) ~> (passes = n + 1)

\* A pass was started after a pass in which all lists failed.
C24_Witness ==
    /\ passes = 2
    /\ running = 1
    /\ passErrs = <<ErrAllFailed>>

(***************************************************************************)
(* Claims on shouldFullRefresh (SpecRefresh)                               *)
(***************************************************************************)
\* The configuration with the timestamp of the other kind replaced.
WithOtherTimestamp(c, movie, t) ==
    IF movie THEN [c EXCEPT !.Sync.LastFullRefresh.Shows = t]
    ELSE [c EXCEPT !.Sync.LastFullRefresh.Movies = t]

\* C11: shouldFullRefresh(kind) is true exactly when the last full refresh
\* of that kind is absent or at least days * 24h ago, days being the
\* configured interval, or 7 when that is <= 0; the timestamp of the other
\* kind has no influence on the decision.
C11_FullRefreshTrigger ==
    syncPc = "decided" =>
        LET movie == lists[listIdx].IsMovie
            last == IF movie THEN cfg.Sync.LastFullRefresh.Movies
                    ELSE cfg.Sync.LastFullRefresh.Shows
            days == IF cfg.Sync.FullRefreshDays <= 0 THEN 7 ELSE cfg.Sync.FullRefreshDays
        IN /\ fullRefresh <=> (last = ZeroTime \/ (now - last >= 0 /\ (now - last) \div Day >= days))
           /\ \A t \in LastRefreshChoices :
                 shouldFullRefresh(WithOtherTimestamp(cfg, movie, t), movie, now) = fullRefresh

(***************************************************************************)
(* SpecBackoff                                                             *)
(***************************************************************************)
NextBackoff == Backoff

SpecBackoff == InitBackoff /\ [][NextBackoff]_vars

\* baseBackoff * 2^(attempt-1) and the cap, computed in 128 bits, where
\* neither the shift nor the product can wrap for an attempt up to 64.
IdealBackoff(att) ==
    LET wideBase == Widen(baseBackoff, Bytes64, BytesWide)
        wideMax == Widen(maxBackoff, Bytes64, BytesWide)
        product == MulWord(wideBase, ShiftOne(att - 1, BytesWide), BytesWide)
    IN IF GreaterUnsigned(product, wideMax, BytesWide) THEN wideMax ELSE product

\* C8: for every attempt index 1..64 the delay backoffDuration returns never
\* exceeds maxBackoff, is computed without integer overflow, so that it
\* equals min(baseBackoff * 2^(attempt-1), maxBackoff), and is never zero
\* or negative.
C8_BackoffBounded ==
    (boPc = "done" /\ boAttempt \in 1..64) =>
        /\ ~GreaterSigned(boDelay, maxBackoff, Bytes64)
        /\ ~IsNegative(boDelay, Bytes64)
        /\ boDelay # ZeroWord(Bytes64)
        /\ Widen(boDelay, Bytes64, BytesWide) = IdealBackoff(boAttempt)

====
